---- MODULE Spec2Model ----
(***************************************************************************)
(* Model of the usage ledger of .compass/handlers/compass-handler.py:      *)
(* update_session_token_count (record), get_current_session_tokens (read), *)
(* the integrity helpers they call and the lock that guards the record.    *)
(*                                                                         *)
(* Sizes are counted in abstract units: an object costs BaseSize, every    *)
(* by_agent entry costs the length of its agent name, every by_phase entry *)
(* one unit, and any other content of the file (unknown keys) costs `pad`. *)
(* The digits of the counts are not counted.  The program constants are    *)
(* scaled down so that the bounds are reached in a few calls; the scaling  *)
(* keeps their order:                                                      *)
(*   COMPACT_KEEP_AGENTS < MAX_TOKEN_SESSIONS < MAX_TOKEN_SESSIONS + 1     *)
(*     < MAX_AGENT_TRACKING,   #phases of the table = MAX_PHASE_TRACKING+1,*)
(*   MAX_TOKEN_FILE_SIZE < READ_SIZE_LIMIT.                                *)
(***************************************************************************)
EXTENDS Integers, Sequences, FiniteSets, TLC

\* ---------------------------------------------------------------------------
\* Program constants (scaled; the source value is given on the right)
\* ---------------------------------------------------------------------------
MAX_TOKEN_SESSIONS == 2
\* source: 25

MAX_TOKEN_FILE_SIZE == 10
\* source: 256 * 1024 bytes

MAX_AGENT_TRACKING == 4
\* source: 50

MAX_PHASE_TRACKING == 2
\* source: 8

READ_SIZE_LIMIT == 20
\* source: 2 * 1024 * 1024 bytes, the limit get_current_session_tokens uses

COMPACT_KEEP_AGENTS == 1
\* source: 5, the slice sorted_agents[:5] of cleanup_token_file

TOTAL_CAP == 1000000
\* source: 1000000, the cap of cleanup_token_file

\* ---------------------------------------------------------------------------
\* Bounds of the model
\* ---------------------------------------------------------------------------
MaxCalls == 4
\* record calls per behaviour

MaxAmount == 2
\* amounts are drawn from 0..MaxAmount

\* length of the one agent name that alone exceeds MAX_TOKEN_FILE_SIZE
LongNameLen == MAX_TOKEN_FILE_SIZE + 1

\* size of an object without entries
BaseSize == 1

\* ---------------------------------------------------------------------------
\* Agents and the static phase table
\* ---------------------------------------------------------------------------
LongAgent == "long-name-agent"

MappedAgents == {"compass-captain", "compass-knowledge-query", "compass-coder"}

UnmappedAgents == {"agent-a", "agent-b"}

ShortAgents == MappedAgents \cup UnmappedAgents

Agents == ShortAgents \cup {LongAgent}

NoPhase == "None"

map_agent_to_phase(agent_type) ==
    CASE agent_type = "compass-captain" -> "coordination"
      [] agent_type = "compass-knowledge-query" -> "phase1_knowledge_query"
      [] agent_type = "compass-coder" -> "phase6_execution_bridge"
      [] OTHER -> NoPhase

NameLen(a) == IF a = LongAgent THEN LongNameLen ELSE 1

\* ---------------------------------------------------------------------------
\* Python dicts: a sequence of [k, v] entries in insertion order
\* ---------------------------------------------------------------------------
Min(a, b) == IF a <= b THEN a ELSE b

Max(a, b) == IF a >= b THEN a ELSE b

Entry(key, val) == [k |-> key, v |-> val]

Keys(d) == {d[i].k : i \in 1..Len(d)}

DictGet(d, key, default) ==
    IF key \in Keys(d)
    THEN d[CHOOSE i \in 1..Len(d) : d[i].k = key].v
    ELSE default

DictPut(d, key, val) ==
    IF key \in Keys(d)
    THEN [i \in 1..Len(d) |-> IF d[i].k = key THEN Entry(key, val) ELSE d[i]]
    ELSE Append(d, Entry(key, val))

\* sorted(d.items(), key=lambda x: x[1], reverse=True): stable, so entries
\* with equal counts keep their insertion order
Rank(d, i) ==
    1 + Cardinality({j \in 1..Len(d) :
                        d[j].v > d[i].v \/ (d[j].v = d[i].v /\ j < i)})

SortedDesc(d) ==
    [r \in 1..Len(d) |-> d[CHOOSE i \in 1..Len(d) : Rank(d, i) = r]]

TopN(d, n) == SubSeq(SortedDesc(d), 1, Min(n, Len(d)))

\* the entries a validation keeps: isinstance(count, (int, float)) and count >= 0
NonNegEntries(d) == SelectSeq(d, LAMBDA e : e.v >= 0)

RECURSIVE SumVals(_)
SumVals(d) == IF d = <<>> THEN 0 ELSE Head(d).v + SumVals(Tail(d))

RECURSIVE NamesLen(_)
NamesLen(d) == IF d = <<>> THEN 0 ELSE NameLen(Head(d).k) + NamesLen(Tail(d))

\* ---------------------------------------------------------------------------
\* The ledger file
\*   kind     "missing" | "garbage" (not JSON) | "nonobj" (JSON, not an object)
\*            | "obj"
\*   total_t  type of the total field: "int" | "str" (not a number) | "null"
\*   agents_ok / phases_ok   the field is a dict
\*   pad      size of everything else in the file
\* ---------------------------------------------------------------------------
FileOf(kind, total_t, total, agents_ok, by_agent, phases_ok, by_phase, pad) ==
    [kind |-> kind, total_t |-> total_t, total |-> total,
     agents_ok |-> agents_ok, by_agent |-> by_agent,
     phases_ok |-> phases_ok, by_phase |-> by_phase, pad |-> pad]

MissingFile == FileOf("missing", "int", 0, TRUE, <<>>, TRUE, <<>>, 0)

GarbageFile(size) == FileOf("garbage", "int", 0, TRUE, <<>>, TRUE, <<>>, size)

\* open(token_file, "w") before anything is written
TruncatedFile == GarbageFile(0)

NonObjFile == FileOf("nonobj", "int", 0, TRUE, <<>>, TRUE, <<>>, 0)

\* json.dump(session_tokens, f, separators=(",", ":"))
DumpTokens(st) ==
    FileOf("obj", "int", st.total, TRUE, st.by_agent, TRUE, st.by_phase, 0)

\* token_file.stat().st_size
FileSize(f) ==
    CASE f.kind = "missing" -> 0
      [] f.kind = "garbage" -> f.pad
      [] f.kind = "nonobj" -> BaseSize + f.pad
      [] OTHER -> BaseSize + f.pad
                  + (IF f.agents_ok THEN NamesLen(f.by_agent) ELSE 1)
                  + (IF f.phases_ok THEN Len(f.by_phase) ELSE 1)

\* len(json.dumps(data)): the default separators add less than a unit
DumpSize(f) == FileSize(f)

\* ---------------------------------------------------------------------------
\* Exceptions: "none" or the name of the Python class raised
\* ---------------------------------------------------------------------------
IsA(exc, cls) ==
    \/ exc = cls
    \/ cls = "Exception" /\ exc # "none"
    \/ cls = "ValueError" /\ exc = "JSONDecodeError"
    \/ cls = "OSError" /\ exc \in {"FileNotFoundError", "PermissionError"}

Caught(exc, classes) == \E c \in classes : IsA(exc, c)

\* in-memory session_tokens
TokenData(total, by_agent, by_phase) ==
    [total |-> total, by_agent |-> by_agent, by_phase |-> by_phase]

create_empty_token_data == TokenData(0, <<>>, <<>>)

\* ---------------------------------------------------------------------------
\* I/O faults a call can meet (one per call)
\*   "exists"  token_file.exists() raises PermissionError (stat fails, EACCES)
\*   "stat"    token_file.stat() raises OSError
\*   "open_r"  opening the file for reading raises OSError
\*   "open_w"  opening the file for writing raises OSError, nothing truncated
\*   "dump"    the write raises OSError after the file was truncated
\* ---------------------------------------------------------------------------
RecordFaults == {"none", "stat", "open_r", "open_w", "dump"}

ReadFaults == {"none", "exists", "stat", "open_r"}

\* ---------------------------------------------------------------------------
\* IntegrityGuard
\* ---------------------------------------------------------------------------
\* Result of load_json_memory_safe: none = TRUE stands for Python's None
load_json_memory_safe(f, io) ==
    IF io = "stat" \/ f.kind = "missing" THEN
        [none |-> TRUE, data |-> f, log |-> <<"json_load_error">>]
    ELSE IF FileSize(f) > MAX_TOKEN_FILE_SIZE THEN
        [none |-> TRUE, data |-> f, log |-> <<"json_file_too_large">>]
    ELSE IF io = "open_r" \/ f.kind = "garbage" THEN
        [none |-> TRUE, data |-> f, log |-> <<"json_load_error">>]
    ELSE IF DumpSize(f) > MAX_TOKEN_FILE_SIZE THEN
        [none |-> TRUE, data |-> f, log |-> <<"json_data_too_large">>]
    ELSE [none |-> FALSE, data |-> f, log |-> <<>>]

\* data is parsed JSON (kind "obj" or "nonobj"); exc is what int(total) raises
validate_and_clean_token_data(data) ==
    IF data.kind # "obj" THEN
        [exc |-> "none", val |-> create_empty_token_data]
    ELSE IF data.total_t = "str" THEN
        [exc |-> "ValueError", val |-> create_empty_token_data]
    ELSE IF data.total_t = "null" THEN
        [exc |-> "TypeError", val |-> create_empty_token_data]
    ELSE
        [exc |-> "none",
         val |-> TokenData(
                    Max(0, data.total),
                    IF data.agents_ok /\ Len(data.by_agent) <= MAX_TOKEN_SESSIONS
                    THEN NonNegEntries(data.by_agent) ELSE <<>>,
                    IF data.phases_ok
                    THEN NonNegEntries(data.by_phase) ELSE <<>>)]

cleanup_old_agents_optimized(st) ==
    IF Len(st.by_agent) > MAX_AGENT_TRACKING
    THEN [st EXCEPT !.by_agent = TopN(st.by_agent, MAX_AGENT_TRACKING)]
    ELSE st

cleanup_old_phases(st) ==
    IF Len(st.by_phase) > MAX_PHASE_TRACKING
    THEN [st EXCEPT !.by_phase = TopN(st.by_phase, MAX_PHASE_TRACKING)]
    ELSE st

\* a cleanup that carries the old total over into the minimal record
emergency_cleanup_keeping_total(f, io) ==
    IF io \in {"open_w", "dump"}
    THEN [file |-> MissingFile, exc |-> "none",
          log |-> <<"emergency_cleanup_failed">>]
    ELSE [file |-> DumpTokens(TokenData(
                      IF f.kind = "obj" /\ f.total_t = "int"
                      THEN Max(0, f.total) ELSE 0, <<>>, <<>>)),
          exc |-> "none", log |-> <<"emergency_cleanup">>]

\* Writes the minimal record; if the write fails the file is removed.
perform_emergency_token_cleanup(f, io) ==
    IF io \in {"open_w", "dump"}
    THEN [file |-> MissingFile, exc |-> "none",
          log |-> <<"emergency_cleanup_failed">>]
    ELSE [file |-> DumpTokens(create_empty_token_data), exc |-> "none",
          log |-> <<"emergency_cleanup">>]

\* exc is the exception that leaves cleanup_token_file: its handler catches
\* (json.JSONDecodeError, OSError, MemoryError) only.
cleanup_token_file(f, io) ==
    IF io = "stat" \/ f.kind = "missing" THEN
        [file |-> MissingFile, exc |-> "none", log |-> <<"token_cleanup_failed">>]
    ELSE IF FileSize(f) > MAX_TOKEN_FILE_SIZE THEN
        perform_emergency_token_cleanup(f, io)
    ELSE IF io = "open_r" \/ f.kind = "garbage" THEN
        [file |-> MissingFile, exc |-> "none", log |-> <<"token_cleanup_failed">>]
    ELSE IF f.kind = "nonobj" THEN
        \* data.get on a list or a number
        [file |-> f, exc |-> "AttributeError", log |-> <<>>]
    ELSE IF f.total_t # "int" THEN
        \* min("abc", 1000000), min(None, 1000000)
        [file |-> f, exc |-> "TypeError", log |-> <<>>]
    ELSE IF io \in {"open_w", "dump"} THEN
        [file |-> MissingFile, exc |-> "none", log |-> <<"token_cleanup_failed">>]
    ELSE
        [file |-> DumpTokens(TokenData(
                      Min(f.total, TOTAL_CAP),
                      IF f.agents_ok
                      THEN TopN(f.by_agent, COMPACT_KEEP_AGENTS) ELSE <<>>,
                      IF f.phases_ok
                      THEN TopN(f.by_phase, MAX_PHASE_TRACKING) ELSE <<>>)),
         exc |-> "none", log |-> <<>>]

\* The token-file part of cleanup_memory: an oversized file is parsed and
\* rewritten with its total and empty maps.  parsed: json.load ran.  The
\* handler catches (json.JSONDecodeError, OSError) and removes the file; any
\* other exception ends in the outer `except Exception: pass`.
cleanup_memory(f, io) ==
    IF io = "stat" \/ f.kind = "missing"
       \/ FileSize(f) <= MAX_TOKEN_FILE_SIZE THEN
        [file |-> f, parsed |-> FALSE]
    ELSE IF io = "open_r" THEN [file |-> MissingFile, parsed |-> FALSE]
    ELSE IF f.kind = "garbage" THEN [file |-> MissingFile, parsed |-> TRUE]
    ELSE IF f.kind = "nonobj" THEN [file |-> f, parsed |-> TRUE]
    ELSE IF io \in {"open_w", "dump"} THEN
        [file |-> MissingFile, parsed |-> TRUE]
    ELSE [file |-> FileOf("obj", f.total_t, f.total, TRUE, <<>>, TRUE, <<>>, 0),
          parsed |-> TRUE]

\* ---------------------------------------------------------------------------
\* ConcurrencyGuard: `with FileLock(path)`.  holder is the process that holds
\* the lock (NoProc when free); without the filelock package the class is the
\* no-op fallback and nothing is ever held.
\* ---------------------------------------------------------------------------
NoProc == 0

FileLock_enter(holder, p, haveLock) == IF haveLock THEN p ELSE holder

\* a release that is skipped when the block is left by an exception
FileLock_exit_on_success_only(holder, p, exc) ==
    IF holder = p /\ exc = "none" THEN NoProc ELSE holder

\* __exit__ runs on every way out of the with block, exc or not
FileLock_exit(holder, p, exc) == IF holder = p THEN NoProc ELSE holder

\* ---------------------------------------------------------------------------
\* UsageLedger.record = update_session_token_count, in its four parts
\* ---------------------------------------------------------------------------
\* Lines 1300-1306, before the lock: size check and cleanup of an oversized
\* file.  exc is what reaches the outer `except Exception`.
RecordPreCheck(f, io) ==
    IF f.kind = "missing" THEN [file |-> f, exc |-> "none", log |-> <<>>]
    ELSE IF io = "stat" THEN [file |-> f, exc |-> "OSError", log |-> <<>>]
    ELSE IF FileSize(f) > MAX_TOKEN_FILE_SIZE THEN
        LET c == cleanup_token_file(f, io)
        IN  [file |-> c.file, exc |-> c.exc,
             log |-> <<"token_file_too_large">> \o c.log]
    ELSE [file |-> f, exc |-> "none", log |-> <<>>]

\* the fault of the call is spent once an operation has met it
FaultAfterPreCheck(f, io) ==
    IF f.kind # "missing" /\ io # "stat" /\ FileSize(f) > MAX_TOKEN_FILE_SIZE
    THEN "none" ELSE io

\* Lines 1310-1330, under the lock.  The inner handler catches
\* (json.JSONDecodeError, FileNotFoundError, MemoryError); anything else
\* leaves the with block.
RecordLoad(f, io) ==
    IF f.kind = "missing" THEN
        [exc |-> "none", val |-> create_empty_token_data, log |-> <<>>]
    ELSE
        LET ld == load_json_memory_safe(f, io)
        IN  IF ld.none THEN
                [exc |-> "none", val |-> create_empty_token_data,
                 log |-> ld.log \o <<"token_file_reset">>]
            ELSE
                LET v == validate_and_clean_token_data(ld.data)
                IN  IF Caught(v.exc, {"JSONDecodeError", "FileNotFoundError",
                                      "MemoryError"})
                    THEN [exc |-> "none", val |-> create_empty_token_data,
                          log |-> <<"token_file_corruption">>]
                    ELSE [exc |-> v.exc, val |-> v.val, log |-> <<>>]

\* an update that counts the tokens of the agent and its phase and leaves
\* the total as it was
RecordUpdate_without_total(st, agent_type, token_count) ==
    LET phase == map_agent_to_phase(agent_type)
        s1 == TokenData(
                st.total,
                DictPut(st.by_agent, agent_type,
                        DictGet(st.by_agent, agent_type, 0) + token_count),
                IF phase # NoPhase
                THEN DictPut(st.by_phase, phase,
                             DictGet(st.by_phase, phase, 0) + token_count)
                ELSE st.by_phase)
    IN  cleanup_old_phases(cleanup_old_agents_optimized(s1))

\* Lines 1334-1353: the counts, then the two evictions
RecordUpdate(st, agent_type, token_count) ==
    LET phase == map_agent_to_phase(agent_type)
        s1 == TokenData(
                st.total + token_count,
                DictPut(st.by_agent, agent_type,
                        DictGet(st.by_agent, agent_type, 0) + token_count),
                IF phase # NoPhase
                THEN DictPut(st.by_phase, phase,
                             DictGet(st.by_phase, phase, 0) + token_count)
                ELSE st.by_phase)
    IN  cleanup_old_phases(cleanup_old_agents_optimized(s1))

\* Lines 1355-1363: open(token_file, "w") truncates, json.dump fills; an
\* OSError is caught and logged
RecordWrite(f, st, io) ==
    IF io = "open_w" THEN
        [file |-> f, outcome |-> "write_error",
         log |-> <<"token_file_write_error">>]
    ELSE IF io = "dump" THEN
        [file |-> TruncatedFile, outcome |-> "write_error",
         log |-> <<"token_file_write_error">>]
    ELSE [file |-> DumpTokens(st), outcome |-> "ok", log |-> <<>>]

\* The whole call, run alone.  outcome: "ok" written, "write_error" the write
\* failed and was logged, "error" the outer handler logged an exception,
\* "raised" an exception reached the caller.
update_session_token_count(f, agent_type, token_count, io) ==
    LET pre == RecordPreCheck(f, io)
        io2 == FaultAfterPreCheck(f, io)
    IN  IF pre.exc # "none" THEN
            [file |-> pre.file, outcome |-> "error",
             log |-> pre.log \o <<"token_count_error">>]
        ELSE
            LET ld == RecordLoad(pre.file, io2)
            IN  IF ld.exc # "none" THEN
                    [file |-> pre.file, outcome |-> "error",
                     log |-> pre.log \o ld.log \o <<"token_count_error">>]
                ELSE
                    LET w == RecordWrite(pre.file,
                                 RecordUpdate(ld.val, agent_type, token_count),
                                 io2)
                    IN  [file |-> w.file, outcome |-> w.outcome,
                         log |-> pre.log \o ld.log \o w.log]

\* ---------------------------------------------------------------------------
\* UsageLedger.read = get_current_session_tokens
\* ---------------------------------------------------------------------------
ZeroTokens == TokenData(0, <<>>, <<>>)

\* the first handler, (json.JSONDecodeError, ValueError, KeyError): cleanup
\* inside `try: ... except Exception: pass`, then zeros
ReadRecover(f, io) ==
    LET c == cleanup_token_file(f, io)
    IN  [file |-> c.file, outcome |-> "ok", val |-> ZeroTokens,
         log |-> <<"token_read_error">> \o c.log]

\* where an exception raised inside the try block ends
ReadHandle(f, exc, io) ==
    IF Caught(exc, {"JSONDecodeError", "ValueError", "KeyError"})
    THEN ReadRecover(f, io)
    ELSE [file |-> f, outcome |-> "ok", val |-> ZeroTokens,
          log |-> <<"token_read_error">>]

get_current_session_tokens(f, io) ==
    IF io = "exists" THEN
        \* line 1557 is outside the try block
        [file |-> f, outcome |-> "raised", val |-> ZeroTokens, log |-> <<>>]
    ELSE IF f.kind = "missing" THEN
        [file |-> f, outcome |-> "ok", val |-> ZeroTokens, log |-> <<>>]
    ELSE IF io = "stat" THEN ReadHandle(f, "OSError", "none")
    ELSE IF FileSize(f) > READ_SIZE_LIMIT THEN
        LET c == cleanup_token_file(f, io)
        IN  IF c.exc # "none" THEN ReadHandle(c.file, c.exc, "none")
            ELSE [file |-> c.file, outcome |-> "ok", val |-> ZeroTokens,
                  log |-> <<"token_file_oversized">> \o c.log]
    ELSE IF io = "open_r" THEN ReadHandle(f, "OSError", "none")
    ELSE IF f.kind = "garbage" THEN ReadHandle(f, "JSONDecodeError", io)
    ELSE
        LET v == validate_and_clean_token_data(f)
        IN  IF v.exc # "none" THEN ReadHandle(f, v.exc, io)
            ELSE [file |-> f, outcome |-> "ok", val |-> v.val, log |-> <<>>]

\* json.load runs on the file (line 1570): past exists(), stat() and open(),
\* and only the READ_SIZE_LIMIT stands before it
ParsedByRead(f, io) ==
    /\ io = "none"
    /\ f.kind # "missing"
    /\ FileSize(f) <= READ_SIZE_LIMIT

\* ---------------------------------------------------------------------------
\* Timestamps.  datetime.now().isoformat() writes a naive timestamp (no UTC
\* offset); a timestamp with an offset is aware; anything else does not parse.
\* ---------------------------------------------------------------------------
TimeFormats == {"naive", "aware", "bad"}

Stamp(fmt, t) == [fmt |-> fmt, t |-> t]

\* a missing field: .get(key, "") gives "", which does not parse
NoStamp == Stamp("bad", 0)

\* the last_update field of the file after a step that left f2 where f was
StampAfter(f, f2, wrote, stamp, t) ==
    IF f2.kind # "obj" THEN NoStamp
    ELSE IF wrote \/ f2 # f THEN Stamp("naive", t)
    ELSE stamp

\* ---------------------------------------------------------------------------
\* ActivitySensor: compass_context_active and the signals it reads.  The
\* windows are scaled: SESSION_WINDOW > ACTIVITY_WINDOW as 7200 s > 1800 s.
\* ---------------------------------------------------------------------------
SESSION_WINDOW == 4
\* source: 7200 seconds

ACTIVITY_WINDOW == 2
\* source: 1800 seconds

JOURNAL_TAIL == 2
\* source: 20, the slice readlines()[-20:]

compass_actions ==
    {"compass_required", "agent_active", "token_tracking", "prompt_routing",
     "phase_update", "compass_complete"}

\* agent_name.startswith("compass-") over the agent names of the model
startswith_compass(name) == name \in MappedAgents

\* (now - timestamp).total_seconds() < seconds_threshold inside
\* try/except Exception: now is datetime.now().astimezone(), an aware time;
\* subtracting a naive timestamp raises TypeError, parsing a bad one raises
\* ValueError, and both end in False
is_session_timestamp_valid(ts, seconds_threshold, t) ==
    ts.fmt = "aware" /\ t - ts.t < seconds_threshold

is_recent_timestamp_extended(ts, t) ==
    ts.fmt = "aware" /\ t - ts.t < ACTIVITY_WINDOW

SessionOf(kind, start, activity) ==
    [kind |-> kind, start |-> start, activity |-> activity]

MissingSession == SessionOf("missing", NoStamp, NoStamp)

\* exc is the exception that leaves the function: only
\* (json.JSONDecodeError, FileNotFoundError) are caught
check_compass_session_active(s, t) ==
    IF s.kind \in {"missing", "garbage"} THEN [exc |-> "none", val |-> FALSE]
    ELSE IF s.kind = "nonobj" THEN [exc |-> "AttributeError", val |-> FALSE]
    ELSE [exc |-> "none",
          val |-> \/ is_session_timestamp_valid(s.start, SESSION_WINDOW, t)
                  \/ is_session_timestamp_valid(s.activity, ACTIVITY_WINDOW, t)]

\* one line of compass-handler.log; compass_agent: the entry has an agent_type
\* field that starts with "compass-"
LogEntry(kind, action, compass_agent, ts) ==
    [kind |-> kind, action |-> action, compass_agent |-> compass_agent,
     ts |-> ts]

\* what log_handler_activity appends at time t
log_handler_activity(action, t) ==
    LogEntry("obj", action, FALSE, Stamp("naive", t))

RECURSIVE LogAll(_, _)
LogAll(actions, t) ==
    IF actions = <<>> THEN <<>>
    ELSE <<log_handler_activity(Head(actions), t)>> \o LogAll(Tail(actions), t)

\* the last JOURNAL_TAIL lines after appending entries
JournalAppend(lines, entries) ==
    LET all == lines \o entries
    IN  IF Len(all) <= JOURNAL_TAIL THEN all
        ELSE SubSeq(all, Len(all) - JOURNAL_TAIL + 1, Len(all))

\* the loop over recent_lines: a line that does not parse is skipped; a line
\* that parses to something else than an object makes .get raise
\* AttributeError, which the outer `except Exception: pass` catches, ending
\* the loop
RECURSIVE ScanJournal(_, _)
ScanJournal(lines, t) ==
    IF lines = <<>> THEN FALSE
    ELSE LET e == Head(lines)
         IN  IF e.kind = "garbage" THEN ScanJournal(Tail(lines), t)
             ELSE IF e.kind = "nonobj" THEN FALSE
             ELSE IF /\ e.action \in compass_actions \/ e.compass_agent
                     /\ is_recent_timestamp_extended(e.ts, t)
                  THEN TRUE
             ELSE ScanJournal(Tail(lines), t)

DocsOf(dir, mtimes) == [dir |-> dir, mtimes |-> mtimes]

\* a docs/*.md file with st_mtime > now - 1800
RecentDocs(d, t) == d.dir /\ \E m \in d.mtimes : m > t - ACTIVITY_WINDOW

\* json.load runs on the ledger file whatever its size
check_recent_compass_tokens(f, stamp, t) ==
    IF f.kind \in {"missing", "garbage"} THEN [exc |-> "none", val |-> FALSE]
    ELSE IF f.kind = "nonobj" THEN [exc |-> "AttributeError", val |-> FALSE]
    ELSE IF is_recent_timestamp_extended(stamp, t)
         THEN [exc |-> "none", val |-> TRUE]
    ELSE IF ~f.agents_ok THEN [exc |-> "AttributeError", val |-> FALSE]
    ELSE [exc |-> "none",
          val |-> \E i \in 1..Len(f.by_agent) :
                      startswith_compass(f.by_agent[i].k)]

Verdict(exc, val, evaluated) ==
    [valid |-> TRUE, exc |-> exc, val |-> val, evaluated |-> evaluated]

NoVerdict == [valid |-> FALSE, exc |-> "none", val |-> FALSE, evaluated |-> 0]

\* evaluated: how many of the five signals were evaluated
compass_context_active(st, se, jo, d, f, stamp, t) ==
    IF st THEN Verdict("none", TRUE, 1)
    ELSE LET s == check_compass_session_active(se, t)
         IN  IF s.exc # "none" THEN Verdict(s.exc, FALSE, 2)
             ELSE IF s.val THEN Verdict("none", TRUE, 2)
             ELSE IF ScanJournal(jo, t) THEN Verdict("none", TRUE, 3)
             ELSE IF RecentDocs(d, t) THEN Verdict("none", TRUE, 4)
             ELSE LET k == check_recent_compass_tokens(f, stamp, t)
                  IN  Verdict(k.exc, k.val, 5)

\* what create_compass_session_tracking logs while it reads the marker
SessionReadLog(s) ==
    IF s.kind = "nonobj" THEN <<"session_corruption">>
    ELSE IF s.kind = "garbage" THEN <<"session_read_error">>
    ELSE <<>>

\* a session tracking that always starts a new session
create_resetting_session_start(s, t, io) ==
    IF io = "open_w" THEN
        [session |-> s, log |-> SessionReadLog(s) \o <<"session_write_error">>]
    ELSE IF io = "dump" THEN
        [session |-> SessionOf("garbage", NoStamp, NoStamp),
         log |-> SessionReadLog(s) \o <<"session_write_error">>]
    ELSE [session |-> SessionOf("obj", Stamp("naive", t), Stamp("naive", t)),
          log |-> SessionReadLog(s) \o <<"session_tracking">>]

\* the session marker create_compass_session_tracking leaves, and what it
\* logs: session_start of an existing object is kept, last_activity is now.
\* An OSError of the write is caught and logged (io "open_w": the open fails
\* and the marker stays; "dump": the write fails after the open truncated
\* the file).
create_compass_session_tracking(s, t, io) ==
    IF io = "open_w" THEN
        [session |-> s, log |-> SessionReadLog(s) \o <<"session_write_error">>]
    ELSE IF io = "dump" THEN
        [session |-> SessionOf("garbage", NoStamp, NoStamp),
         log |-> SessionReadLog(s) \o <<"session_write_error">>]
    ELSE [session |-> SessionOf("obj",
                                IF s.kind = "obj" /\ s.start # NoStamp
                                THEN s.start ELSE Stamp("naive", t),
                                Stamp("naive", t)),
          log |-> SessionReadLog(s) \o <<"session_tracking">>]

\* update_compass_session_activity: last_activity of the marker becomes now.
\* Only JSONDecodeError and FileNotFoundError are caught: item assignment on
\* a parsed non-object raises TypeError, a failing write raises OSError
\* (io "open_w": the open fails; "dump": the write fails after the open
\* truncated the file).
update_compass_session_activity(s, t, io) ==
    IF s.kind = "missing" THEN [session |-> s, exc |-> "none", log |-> <<>>]
    ELSE IF s.kind = "garbage" THEN
        LET c == create_compass_session_tracking(s, t, io)
        IN  [session |-> c.session, exc |-> "none", log |-> c.log]
    ELSE IF s.kind = "nonobj" THEN
        [session |-> s, exc |-> "TypeError", log |-> <<>>]
    ELSE IF io = "open_w" THEN [session |-> s, exc |-> "OSError", log |-> <<>>]
    ELSE IF io = "dump" THEN
        [session |-> SessionOf("garbage", NoStamp, NoStamp), exc |-> "OSError",
         log |-> <<>>]
    ELSE [session |-> [s EXCEPT !.activity = Stamp("naive", t)],
          exc |-> "none", log |-> <<>>]

\* ---------------------------------------------------------------------------
\* LogJournal: compass-handler.log as the sequence of the action tags of its
\* records, and its backup compass-handler.log.old.  A record counts one unit
\* of size; MAX_LOG_SIZE is scaled.
\* ---------------------------------------------------------------------------
MAX_LOG_SIZE == 2
\* source: 2 * 1024 * 1024

NoBackup == [exists |-> FALSE, lines |-> <<>>]

BackupOf(lines) == [exists |-> TRUE, lines |-> lines]

\* The I/O faults of one append call:
\*   "mkdir"    the log directory cannot be created
\*   "stat"     the size of the journal cannot be read
\*   "unlink"   the old backup cannot be removed
\*   "rename"   the journal cannot be renamed
\*   "marker"   the fresh journal cannot be written after the rename
\*   "truncate" the journal can be neither renamed nor truncated
\*   "open_a"   the journal cannot be opened for appending
AppendFaults ==
    {"none", "mkdir", "stat", "unlink", "rename", "marker", "truncate",
     "open_a"}

\* a rotation that leaves the journal as it is when the rename fails
rotate_without_truncation(lines, bk, io) ==
    IF io = "unlink" /\ bk.exists THEN [lines |-> lines, backup |-> bk]
    ELSE IF io \in {"rename", "truncate"} THEN
        [lines |-> lines, backup |-> NoBackup]
    ELSE IF io = "marker" THEN
        [lines |-> <<"log_truncated">>, backup |-> BackupOf(lines)]
    ELSE [lines |-> <<"log_rotated">>, backup |-> BackupOf(lines)]

\* a rotation that appends the journal to the backup it finds
rotate_keeping_old_backup(lines, bk, io) ==
    IF io = "unlink" /\ bk.exists THEN
        [lines |-> <<"log_truncated">>, backup |-> bk]
    ELSE IF io = "rename" THEN
        [lines |-> <<"log_truncated">>, backup |-> NoBackup]
    ELSE IF io = "truncate" THEN [lines |-> lines, backup |-> NoBackup]
    ELSE IF io = "marker" THEN
        [lines |-> <<"log_truncated">>, backup |-> BackupOf(lines)]
    ELSE [lines |-> <<"log_rotated">>, backup |-> BackupOf(bk.lines \o lines)]

\* rotate_log_file: the old backup is unlinked, the journal renamed to the
\* backup name and a fresh journal written with the log_rotated record; an
\* OSError on the way makes the handler truncate the journal in place and
\* write the log_truncated record, and an OSError there is passed over
rotate_log_file(lines, bk, io) ==
    IF io = "unlink" /\ bk.exists THEN
        [lines |-> <<"log_truncated">>, backup |-> bk]
    ELSE IF io = "rename" THEN
        [lines |-> <<"log_truncated">>, backup |-> NoBackup]
    ELSE IF io = "truncate" THEN [lines |-> lines, backup |-> NoBackup]
    ELSE IF io = "marker" THEN
        [lines |-> <<"log_truncated">>, backup |-> BackupOf(lines)]
    ELSE [lines |-> <<"log_rotated">>, backup |-> BackupOf(lines)]

\* lines 3017-3028 on one journal file: rotation when the size exceeds
\* MAX_LOG_SIZE, then the record is appended
AppendTo(lines, bk, action, io) ==
    IF io = "stat" THEN [lines |-> lines, backup |-> bk, exc |-> "none"]
    ELSE LET r == IF Len(lines) > MAX_LOG_SIZE
                  THEN rotate_log_file(lines, bk, io)
                  ELSE [lines |-> lines, backup |-> bk]
         IN  [lines |-> IF io = "open_a" THEN r.lines
                        ELSE Append(r.lines, action),
              backup |-> r.backup, exc |-> "none"]

\* an append that lets the OSError of stat() reach its caller
append_without_stat_handler(lines, bk, st, action, io) ==
    IF io = "mkdir" THEN
        LET a == AppendTo(st, NoBackup, action, "none")
        IN  [lines |-> lines, backup |-> bk, stray |-> a.lines,
             exc |-> a.exc]
    ELSE LET a == AppendTo(lines, bk, action, io)
         IN  [lines |-> a.lines, backup |-> a.backup, stray |-> st,
              exc |-> IF io = "stat" THEN "OSError" ELSE a.exc]

\* log_handler_activity as an operation on the files: when the log directory
\* cannot be created the record goes to compass-handler.log in the current
\* directory (st)
AppendJournal(lines, bk, st, action, io) ==
    IF io = "mkdir" THEN
        LET a == AppendTo(st, NoBackup, action, "none")
        IN  [lines |-> lines, backup |-> bk, stray |-> a.lines,
             exc |-> a.exc]
    ELSE LET a == AppendTo(lines, bk, action, io)
         IN  [lines |-> a.lines, backup |-> a.backup, stray |-> st,
              exc |-> a.exc]

\* ---------------------------------------------------------------------------
\* ExternalQueryCache: the files <key>.pkl of .compass/cache/knowledge with
\* their payload and modification time, and the temporary scripts
\* knowledge_query_<key>.py.  KNOWLEDGE_CACHE_TTL is scaled.
\* ---------------------------------------------------------------------------
KNOWLEDGE_CACHE_TTL == 2
\* source: 3600 seconds

Descriptions == {"task"}

\* the keywords in the order sorted() puts them
KeywordOrder == <<"auth", "memory">>

\* topic_keywords as the caller builds them, list(set(...)): no keyword
\* twice, in any order
KeywordLists == {<<"auth">>, <<"auth", "memory">>, <<"memory", "auth">>}

\* what the query script prints: its result with "status": "success", or,
\* when the query itself met an exception, a result with "status": "error"
Payloads == {"p1", "perr"}

PayloadStatus(p) == IF p = "perr" THEN "error" ELSE "success"

RECURSIVE SortedFrom(_, _)
SortedFrom(i, topic_keywords) ==
    IF i > Len(KeywordOrder) THEN <<>>
    ELSE SelectSeq(topic_keywords, LAMBDA k : k = KeywordOrder[i])
         \o SortedFrom(i + 1, topic_keywords)

\* sorted(topic_keywords)
sorted(topic_keywords) == SortedFrom(1, topic_keywords)

\* a key made of the keyword list as it comes
get_cache_key_unsorted(task_description, topic_keywords) ==
    <<task_description, topic_keywords>>

\* sha256(f"{task_description}||{sorted(topic_keywords)}")[:16]: the digest
\* stands for the content it was computed from
get_cache_key(task_description, topic_keywords) ==
    <<task_description, sorted(topic_keywords)>>

CacheKeys ==
    {get_cache_key(d, k) : d \in Descriptions, k \in KeywordLists}

NoEntry == [present |-> FALSE, payload |-> "none", mtime |-> 0]

EntryOf(payload, t) == [present |-> TRUE, payload |-> payload, mtime |-> t]

\* Python's None
None == "None"

\* load_cached_knowledge: an entry older than the TTL is unlinked
load_cached_knowledge(c, cache_key, t) ==
    IF ~c[cache_key].present THEN [cache |-> c, val |-> None, log |-> <<>>]
    ELSE IF t - c[cache_key].mtime > KNOWLEDGE_CACHE_TTL THEN
        [cache |-> [c EXCEPT ![cache_key] = NoEntry], val |-> None,
         log |-> <<"cache_expired">>]
    ELSE [cache |-> c, val |-> c[cache_key].payload, log |-> <<"cache_hit">>]

\* save_knowledge_cache
save_knowledge_cache(c, cache_key, knowledge_data, t) ==
    [c EXCEPT ![cache_key] = EntryOf(knowledge_data, t)]

\* How the query of one resolve call goes:
\*   "ok"         exit status 0 and JSON on stdout
\*   "nonzero"    exit status other than 0
\*   "timeout"    subprocess.TimeoutExpired
\*   "badjson"    exit status 0 and output json.loads rejects
\*   "open_fail"  the script file cannot be created
\*   "write_fail" the script file is created and writing it fails
QueryOutcomes ==
    {"ok", "nonzero", "timeout", "badjson", "open_fail", "write_fail"}

\* what the call returns: the payload, or a dict with status and error
Answer(status, payload) == [status |-> status, payload |-> payload]

NoAnswer == Answer("none", None)

\* the arguments of a cache call: description, keyword list, payload, time
\* and the operation that was called
QueryOf(d, k, p, t, by) == [d |-> d, kws |-> k, payload |-> p, t |-> t, by |-> by]

NoQuery == QueryOf("none", <<>>, None, 0, "none")

\* the part of execute_knowledge_query_subprocess after a cache miss (lines
\* 3196-3355): c is the cache the lookup left
RunQuery(c, sc, cache_key, run, knowledge_data, t, log) ==
    IF run = "open_fail" THEN
        [cache |-> c, scripts |-> sc, ran |-> TRUE, answer |-> Answer("setup_error", None),
         log |-> log \o <<"knowledge_subprocess_start",
                          "knowledge_subprocess_setup_error">>]
    ELSE IF run = "write_fail" THEN
        [cache |-> c, scripts |-> sc \cup {cache_key}, ran |-> TRUE,
         answer |-> Answer("setup_error", None),
         log |-> log \o <<"knowledge_subprocess_start",
                          "knowledge_subprocess_setup_error">>]
    ELSE IF run = "timeout" THEN
        [cache |-> c, scripts |-> sc \ {cache_key}, ran |-> TRUE,
         answer |-> Answer("timeout", None),
         log |-> log \o <<"knowledge_subprocess_start",
                          "knowledge_subprocess_timeout">>]
    ELSE IF run = "nonzero" THEN
        [cache |-> c, scripts |-> sc \ {cache_key}, ran |-> TRUE,
         answer |-> Answer("subprocess_error", None),
         log |-> log \o <<"knowledge_subprocess_start",
                          "knowledge_subprocess_error">>]
    ELSE IF run = "badjson" THEN
        [cache |-> c, scripts |-> sc \ {cache_key}, ran |-> TRUE,
         answer |-> Answer("setup_error", None),
         log |-> log \o <<"knowledge_subprocess_start",
                          "knowledge_subprocess_setup_error">>]
    ELSE [cache |-> save_knowledge_cache(c, cache_key, knowledge_data, t),
          scripts |-> sc \ {cache_key}, ran |-> TRUE,
          answer |-> Answer(PayloadStatus(knowledge_data), knowledge_data),
          log |-> log \o <<"knowledge_subprocess_start", "cache_saved",
                           "knowledge_subprocess_success">>]

\* a resolve that caches whatever the query printed, whatever its exit status
execute_query_caching_failures(c, sc, task_description, topic_keywords, run, knowledge_data, t) ==
    LET cache_key == get_cache_key(task_description, topic_keywords)
        cached == load_cached_knowledge(c, cache_key, t)
    IN  IF cached.val # None THEN
            [cache |-> cached.cache, scripts |-> sc, ran |-> FALSE,
             answer |-> Answer(PayloadStatus(cached.val), cached.val),
             log |-> cached.log]
        ELSE IF run = "nonzero" THEN
            [cache |-> save_knowledge_cache(cached.cache, cache_key,
                                            knowledge_data, t),
             scripts |-> sc \ {cache_key}, ran |-> TRUE,
             answer |-> Answer("subprocess_error", None),
             log |-> cached.log]
        ELSE RunQuery(cached.cache, sc, cache_key, run, knowledge_data, t,
                      cached.log)

\* a resolve that runs the query without looking in the cache first
execute_query_without_lookup(c, sc, task_description, topic_keywords, run, knowledge_data, t) ==
    RunQuery(c, sc, get_cache_key(task_description, topic_keywords), run,
             knowledge_data, t, <<>>)

\* execute_knowledge_query_subprocess: the cached payload on a hit, else the
\* query is run from a temporary script
execute_knowledge_query_subprocess(c, sc, task_description, topic_keywords, run, knowledge_data, t) ==
    LET cache_key == get_cache_key(task_description, topic_keywords)
        cached == load_cached_knowledge(c, cache_key, t)
    IN  IF cached.val # None THEN
            [cache |-> cached.cache, scripts |-> sc, ran |-> FALSE,
             answer |-> Answer(PayloadStatus(cached.val), cached.val),
             log |-> cached.log]
        ELSE RunQuery(cached.cache, sc, cache_key, run, knowledge_data, t,
                      cached.log)

\* ---------------------------------------------------------------------------
\* State
\* ---------------------------------------------------------------------------
VARIABLES
    file,       \* the ledger file .compass/logs/compass-tokens.json
    initFile,   \* the ledger file the behaviour started from
    lastOp,     \* the last call that finished: "none", "record" or "read"
    outcome,    \* how it ended: "ok", "write_error", "error" or "raised"
    lastRead,   \* what the last read() returned, if nothing happened since
    reads,      \* read() calls in a row that met no fault (counted up to 2)
    logged,     \* the journal actions the last step appended
    faulted,    \* some call met an I/O fault
    nCalls,     \* record calls made
    sum,        \* sum of the amounts of all record calls made
    okSum,      \* sum of the amounts of the record calls that ended "ok"
    recorded,   \* per agent, the sum of the amounts recorded for it
                \* (kept by the one-call-at-a-time specifications)
    seen,       \* the agents recorded (likewise)
    haveLock,   \* the filelock package is installed
    holder,     \* the process holding the lock, or NoProc
    pc,         \* per process, where it is in update_session_token_count
    arg,        \* per process, the arguments and the fault of its call
    mem,        \* per process, its session_tokens
    perr,       \* per process, the exception leaving the with block
    fileStamp,  \* the last_update field of the ledger file
    parsedOver, \* json.load has run on a ledger file larger than
                \* MAX_TOKEN_FILE_SIZE
    now,        \* the clock
    status,     \* .compass/logs/compass-status exists
    session,    \* the session marker .compass/logs/compass-session.json
    journal,    \* the last JOURNAL_TAIL lines of compass-handler.log
    docs,       \* docs/*.md: the modification times, or no directory
    verdict,    \* what the last compass_context_active() call returned, if
                \* nothing happened since
    checks,     \* compass_context_active() calls in a row (counted up to 2)
    bySystem,   \* create_compass_session_tracking wrote the session marker
    cache,      \* per cache key, the entry file <key>.pkl
    scripts,    \* the cache keys whose temporary script file exists
    answer,     \* what the last cache call returned
    logLines,   \* the records of compass-handler.log, oldest first
    backup,     \* compass-handler.log.old
    stray,      \* the records of compass-handler.log in the current directory
    lastIo,     \* the fault the last journal, cache or session call met
    lastQuery,  \* the description and keyword list of the last cache call
    lastPut     \* the arguments and time of the last call that stored an
                \* entry, while that entry has not been replaced

vars == <<file, initFile, lastOp, outcome, lastRead, reads, logged, faulted,
          nCalls, sum, okSum, recorded, seen,
          haveLock, holder, pc, arg, mem, perr,
          fileStamp, parsedOver,
          now, status, session, journal, docs, verdict, checks, bySystem,
          cache, scripts, answer, logLines, backup, stray, lastIo,
          lastQuery, lastPut>>

storeVars == <<cache, scripts, answer, logLines, backup, stray, lastIo,
               lastQuery, lastPut>>

sensorVars == <<now, status, session, journal, docs, verdict, checks,
                bySystem>>

procVars == <<haveLock, holder, pc, arg, mem, perr>>

NumProcs == 2

Procs == 1..NumProcs

NoRead == [valid |-> FALSE, val |-> ZeroTokens]

NoArg == [agent |-> "agent-a", amount |-> 0, io |-> "none", res |-> "none"]

InitHist ==
    /\ faulted = FALSE
    /\ nCalls = 0
    /\ sum = 0
    /\ okSum = 0
    /\ recorded = [a \in Agents |-> 0]
    /\ seen = {}

InitProcs ==
    /\ holder = NoProc
    /\ pc = [p \in Procs |-> "idle"]
    /\ arg = [p \in Procs |-> NoArg]
    /\ mem = [p \in Procs |-> create_empty_token_data]
    /\ perr = [p \in Procs |-> "none"]

\* the cache and the journal are empty
InitNoStore ==
    /\ cache = [k \in CacheKeys |-> NoEntry]
    /\ scripts = {}
    /\ answer = NoAnswer
    /\ logLines = <<>>
    /\ backup = NoBackup
    /\ stray = <<>>
    /\ lastIo = "none"
    /\ lastQuery = NoQuery
    /\ lastPut = NoQuery

\* no sensor file exists and the clock stands still
InitSensorIdle ==
    /\ now = 0
    /\ status = FALSE
    /\ session = MissingSession
    /\ journal = <<>>
    /\ docs = DocsOf(FALSE, {})
    /\ verdict = NoVerdict
    /\ checks = 0
    /\ bySystem = FALSE

InitNoSensor == InitSensorIdle /\ InitNoStore

InitLedger(f) ==
    /\ file = f
    /\ initFile = f
    /\ fileStamp = (IF f.kind = "obj" THEN Stamp("naive", 0) ELSE NoStamp)
    /\ parsedOver = FALSE
    /\ lastOp = "none"
    /\ outcome = "none"
    /\ lastRead = NoRead
    /\ reads = 0
    /\ logged = <<>>

\* ---------------------------------------------------------------------------
\* Calls that run alone, from start to end
\* ---------------------------------------------------------------------------
Record(agent_type, token_count, io, maxCalls) ==
    /\ nCalls < maxCalls
    /\ \A p \in Procs : pc[p] = "idle"
    /\ LET r == update_session_token_count(file, agent_type, token_count, io)
       IN  /\ file' = r.file
           /\ outcome' = r.outcome
           /\ logged' = r.log
           /\ okSum' = IF r.outcome = "ok" THEN okSum + token_count ELSE okSum
           /\ fileStamp' = StampAfter(file, r.file, r.outcome = "ok",
                                      fileStamp, now)
    /\ lastOp' = "record"
    /\ lastRead' = NoRead
    /\ reads' = 0
    /\ faulted' = (faulted \/ io # "none")
    /\ nCalls' = nCalls + 1
    /\ sum' = sum + token_count
    /\ recorded' = [recorded EXCEPT ![agent_type] = @ + token_count]
    /\ seen' = seen \cup {agent_type}
    /\ UNCHANGED <<initFile, procVars, parsedOver, sensorVars, storeVars>>

\* one call of get_current_session_tokens on the file as it is now
ReadNow(io) ==
    /\ LET r == get_current_session_tokens(file, io)
       IN  /\ file' = r.file
           /\ outcome' = r.outcome
           /\ logged' = r.log
           /\ lastRead' = IF r.outcome = "ok" /\ io = "none"
                          THEN [valid |-> TRUE, val |-> r.val]
                          ELSE NoRead
           /\ fileStamp' = StampAfter(file, r.file, FALSE, fileStamp, now)
    /\ parsedOver' = (parsedOver \/ (ParsedByRead(file, io)
                                      /\ FileSize(file) > MAX_TOKEN_FILE_SIZE))
    /\ lastOp' = "read"
    /\ reads' = IF io = "none" THEN Min(reads + 1, 2) ELSE 0
    /\ faulted' = (faulted \/ io # "none")
    /\ UNCHANGED <<initFile, nCalls, sum, okSum, recorded, seen, procVars,
                   sensorVars, storeVars>>

Read(io) ==
    /\ \A p \in Procs : pc[p] = "idle"
    /\ ReadNow(io)

\* ---------------------------------------------------------------------------
\* SpecFresh: no ledger file at the start, calls one at a time, no I/O fault
\* ---------------------------------------------------------------------------
InitFresh ==
    /\ InitLedger(MissingFile)
    /\ InitHist
    /\ InitNoSensor
    /\ InitProcs
    /\ haveLock = TRUE

RecordFresh ==
    \E a \in Agents, n \in 0..MaxAmount : Record(a, n, "none", MaxCalls)

ReadFresh == Read("none")

NextFresh == RecordFresh \/ ReadFresh

SpecFresh == InitFresh /\ [][NextFresh]_vars

\* what the ledger file holds, as a dict lookup
Persisted(d, key) == DictGet(d, key, 0)

PhaseSum(phase) ==
    LET as == {a \in Agents : map_agent_to_phase(a) = phase}
        RECURSIVE Add(_)
        Add(S) == IF S = {} THEN 0
                  ELSE LET a == CHOOSE x \in S : TRUE
                       IN  recorded[a] + Add(S \ {a})
    IN  Add(as)

Phases == {map_agent_to_phase(a) : a \in MappedAgents}

SeenPhases == {map_agent_to_phase(a) : a \in seen \cap MappedAgents}

\* C1: from no ledger file, after record calls made one at a time, read()
\* returns a total equal to the sum of all recorded amounts.
C1_TotalIsSum == lastRead.valid => lastRead.val.total = sum

\* C4: with at most MAX_AGENT_TRACKING distinct agents and at most
\* MAX_PHASE_TRACKING distinct phases recorded, read() returns for every
\* recorded agent the sum of its amounts and for every phase the sum of the
\* amounts of the agents mapped to it.
C4_BucketsAreSums ==
    (/\ lastRead.valid
     /\ Cardinality(seen) <= MAX_AGENT_TRACKING
     /\ Cardinality(SeenPhases) <= MAX_PHASE_TRACKING)
    => /\ \A a \in seen : Persisted(lastRead.val.by_agent, a) = recorded[a]
       /\ \A ph \in Phases : Persisted(lastRead.val.by_phase, ph) = PhaseSum(ph)

\* C6: every ledger state persisted by record has at most MAX_AGENT_TRACKING
\* agents, at most MAX_PHASE_TRACKING phases and a serialized size of at most
\* MAX_TOKEN_FILE_SIZE.
C6_PersistedBounded ==
    (lastOp = "record" /\ outcome = "ok")
    => /\ Len(file.by_agent) <= MAX_AGENT_TRACKING
       /\ Len(file.by_phase) <= MAX_PHASE_TRACKING
       /\ FileSize(file) <= MAX_TOKEN_FILE_SIZE

\* C7: a successful record call never leaves a smaller persisted total than
\* the one the previous successful record call left.
C7_TotalNeverDecreases ==
    [][(/\ nCalls >= 1
        /\ nCalls' = nCalls + 1
        /\ outcome' = "ok"
        /\ file.kind = "obj" /\ file.total_t = "int")
       => file'.total >= file.total]_vars

\* ---------------------------------------------------------------------------
\* SpecShort: as SpecFresh, with agent names of ordinary length only
\* ---------------------------------------------------------------------------
RecordShort ==
    \E a \in ShortAgents, n \in 0..MaxAmount : Record(a, n, "none", MaxCalls)

NextShort == RecordShort \/ ReadFresh

SpecShort == InitFresh /\ [][NextShort]_vars

\* ---------------------------------------------------------------------------
\* SpecIncr: the eviction scenario.  Every call records an agent not recorded
\* before, the k-th call with amount k, until MAX_AGENT_TRACKING + 1 agents
\* are recorded.
\* ---------------------------------------------------------------------------
RecordIncr ==
    \E a \in ShortAgents \ seen :
        Record(a, nCalls + 1, "none", MAX_AGENT_TRACKING + 1)

NextIncr == RecordIncr \/ ReadFresh

SpecIncr == InitFresh /\ [][NextIncr]_vars

\* the n keys of S with the largest value of val (the values are distinct)
Largest(S, val(_), n) ==
    {x \in S : Cardinality({y \in S : val(y) > val(x)}) < n}

RecordedOf(a) == recorded[a]

\* C5: after more than MAX_AGENT_TRACKING distinct agents were recorded with
\* amounts 1, 2, 3, ..., by_agent holds exactly the MAX_AGENT_TRACKING agents
\* with the largest amounts, each with its amount; by_phase holds the
\* MAX_PHASE_TRACKING phases with the largest amounts once more phases than
\* that were recorded.
C5_EvictionKeepsLargest ==
    (lastOp = "record" /\ outcome = "ok")
    => /\ Cardinality(seen) > MAX_AGENT_TRACKING
          => /\ Keys(file.by_agent)
                  = Largest(seen, RecordedOf, MAX_AGENT_TRACKING)
             /\ \A a \in Keys(file.by_agent) :
                    Persisted(file.by_agent, a) = recorded[a]
       /\ Cardinality(SeenPhases) > MAX_PHASE_TRACKING
          => Keys(file.by_phase)
               = Largest(SeenPhases, PhaseSum, MAX_PHASE_TRACKING)

\* ---------------------------------------------------------------------------
\* Spec: the ledger file holds anything at the start (it is shared with other
\* processes and survives crashes), calls run one at a time and may meet an
\* I/O fault.
\* ---------------------------------------------------------------------------
MaxFileCalls == 1
\* record calls per behaviour of Spec

A2 == <<Entry("agent-a", 2), Entry("compass-captain", 1)>>

A3 == <<Entry("agent-a", 1), Entry("agent-b", 1), Entry("compass-captain", 1)>>

P1 == <<Entry("coordination", 1)>>

P3 == <<Entry("coordination", 1), Entry("phase1_knowledge_query", 2),
        Entry("phase6_execution_bridge", 2)>>

ValidFiles ==
    { FileOf("obj", "int", 0, TRUE, <<>>, TRUE, <<>>, 0),
      FileOf("obj", "int", 3, TRUE, A2, TRUE, P1, 0),
      FileOf("obj", "int", 3, TRUE, A3, TRUE, P1, 0),
      FileOf("obj", "int", 5, TRUE, A2, TRUE, P3, 0) }

\* negative numbers are dropped or clamped by the validation
OddFiles ==
    { FileOf("obj", "int", 0 - 1, TRUE,
             <<Entry("agent-a", 2), Entry("agent-b", 0 - 1)>>,
             TRUE, <<Entry("coordination", 0 - 1)>>, 0) }

InvalidFiles ==
    { GarbageFile(1),
      GarbageFile(MAX_TOKEN_FILE_SIZE + 1),
      GarbageFile(READ_SIZE_LIMIT + 1),
      NonObjFile,
      FileOf("obj", "str", 0, TRUE, A2, TRUE, P1, 0),
      FileOf("obj", "null", 0, TRUE, A2, TRUE, P1, 0),
      FileOf("obj", "int", 3, FALSE, <<>>, TRUE, P1, 0),
      FileOf("obj", "int", 3, TRUE, A2, FALSE, <<>>, 0),
      FileOf("obj", "int", 3, TRUE, A2, TRUE, P1, MAX_TOKEN_FILE_SIZE),
      FileOf("obj", "int", 3, TRUE, A2, TRUE, P1, READ_SIZE_LIMIT) }

InitFiles == {MissingFile} \cup ValidFiles \cup OddFiles \cup InvalidFiles

\* unparseable, not an object, a field of the wrong type, or oversized
InvalidLedger(f) ==
    \/ f.kind \in {"garbage", "nonobj"}
    \/ f.kind = "obj" /\ (f.total_t # "int" \/ ~f.agents_ok \/ ~f.phases_ok)
    \/ f.kind # "missing" /\ FileSize(f) > MAX_TOKEN_FILE_SIZE

FileAgents == {"agent-a", "compass-coder", LongAgent}

Init ==
    /\ \E f \in InitFiles : InitLedger(f)
    /\ InitHist
    /\ InitNoSensor
    /\ InitProcs
    /\ haveLock = TRUE

RecordAny ==
    \E a \in FileAgents, n \in 0..MaxAmount, io \in RecordFaults :
        Record(a, n, io, MaxFileCalls)

ReadAny == \E io \in ReadFaults : Read(io)

Next == RecordAny \/ ReadAny

Spec == Init /\ [][Next]_vars

\* C2: whatever invalid content the ledger file holds, the next record(x, n)
\* succeeds and the read() after it reports total = n.
C2_InvalidLedgerRecovers ==
    (/\ InvalidLedger(initFile)
     /\ nCalls = 1
     /\ ~faulted
     /\ lastRead.valid)
    => /\ okSum = sum
       /\ lastRead.val.total = sum

\* C8: a read() that follows a read() with no record() in between returns the
\* same total, by_agent and by_phase.
C8_ReadIdempotent ==
    [][(lastRead.valid /\ lastRead'.valid) => lastRead'.val = lastRead.val]_vars

\* two reads in a row, the first of which repaired or removed the file
C8_Witness == reads = 2 /\ nCalls = 0 /\ file # initFile

\* C9: no call raises to its caller, and read() returns a well-formed record.
C9_NeverRaises == outcome # "raised"

\* ---------------------------------------------------------------------------
\* SpecConc: record calls of several processes, interleaved step by step.
\* A process is at "idle" (no call), "pre" (line 1302), "acquire" (line 1309,
\* waiting for the lock), "load" (1310), "open" (1356), "dump" (1357) or
\* "exit" (leaving the with block).
\* ---------------------------------------------------------------------------
MaxConcCalls == 2
\* record calls per behaviour of SpecConc

ConcAgents == {"agent-a", LongAgent}

\* two different positive amounts tell the calls apart in the total
ConcAmounts == {1, 2}

ConcFaults == {"none", "open_w", "dump"}

ConcFiles ==
    { MissingFile,
      FileOf("obj", "int", 3, TRUE, A2, TRUE, P1, 0),
      FileOf("obj", "str", 0, TRUE, A2, TRUE, P1, 0) }

InitConc ==
    /\ \E f \in ConcFiles : InitLedger(f)
    /\ InitHist
    /\ InitNoSensor
    /\ InitProcs
    /\ haveLock \in BOOLEAN

Goto(p, label) == pc' = [pc EXCEPT ![p] = label]

\* the call of p returns with result res; its locals go out of scope
Return(p, res) ==
    /\ Goto(p, "idle")
    /\ arg' = [arg EXCEPT ![p] = NoArg]
    /\ mem' = [mem EXCEPT ![p] = create_empty_token_data]
    /\ outcome' = res
    /\ lastOp' = "record"
    /\ okSum' = IF res = "ok" THEN okSum + arg[p].amount ELSE okSum

Start(p, agent_type, token_count, io) ==
    /\ pc[p] = "idle"
    /\ nCalls < MaxConcCalls
    /\ Goto(p, "pre")
    /\ arg' = [arg EXCEPT ![p] = [agent |-> agent_type, amount |-> token_count,
                                  io |-> io, res |-> "none"]]
    /\ perr' = [perr EXCEPT ![p] = "none"]
    /\ lastRead' = NoRead
    /\ reads' = 0
    /\ faulted' = (faulted \/ io # "none")
    /\ nCalls' = nCalls + 1
    /\ sum' = sum + token_count
    /\ UNCHANGED <<file, initFile, lastOp, outcome, logged, okSum,
                   recorded, seen, haveLock, holder, mem,
                   fileStamp, parsedOver, sensorVars, storeVars>>

PreCheck(p) ==
    /\ pc[p] = "pre"
    /\ LET r == RecordPreCheck(file, arg[p].io)
       IN  /\ file' = r.file
           /\ fileStamp' = StampAfter(file, r.file, FALSE, fileStamp, now)
           /\ IF r.exc # "none"
              THEN /\ Return(p, "error")
                   /\ logged' = r.log \o <<"token_count_error">>
              ELSE /\ Goto(p, "acquire")
                   /\ arg' = [arg EXCEPT
                                ![p].io = FaultAfterPreCheck(file, arg[p].io)]
                   /\ logged' = r.log
                   /\ UNCHANGED <<outcome, lastOp, okSum, mem>>
    /\ UNCHANGED <<initFile, lastRead, reads, faulted, nCalls, sum, recorded,
                   seen, haveLock, holder, perr, parsedOver, sensorVars, storeVars>>

Acquire(p) ==
    /\ pc[p] = "acquire"
    /\ haveLock => holder = NoProc
    /\ holder' = FileLock_enter(holder, p, haveLock)
    /\ Goto(p, "load")
    /\ logged' = <<>>
    /\ UNCHANGED <<file, initFile, lastOp, outcome, lastRead, reads, faulted,
                   nCalls, sum, okSum, recorded, seen, haveLock, arg, mem, perr,
                   fileStamp, parsedOver, sensorVars, storeVars>>

Load(p) ==
    /\ pc[p] = "load"
    /\ LET r == RecordLoad(file, arg[p].io)
       IN  /\ logged' = r.log
           /\ IF r.exc # "none"
              THEN /\ perr' = [perr EXCEPT ![p] = r.exc]
                   /\ Goto(p, "exit")
                   /\ UNCHANGED mem
              ELSE /\ mem' = [mem EXCEPT ![p] =
                                RecordUpdate(r.val, arg[p].agent, arg[p].amount)]
                   /\ Goto(p, "open")
                   /\ UNCHANGED perr
    /\ UNCHANGED <<file, initFile, lastOp, outcome, lastRead, reads, faulted,
                   nCalls, sum, okSum, recorded, seen, haveLock, holder, arg,
                   fileStamp, parsedOver, sensorVars, storeVars>>

Open(p) ==
    /\ pc[p] = "open"
    /\ IF arg[p].io = "open_w"
       THEN /\ arg' = [arg EXCEPT ![p].res = "write_error"]
            /\ Goto(p, "exit")
            /\ logged' = <<"token_file_write_error">>
            /\ UNCHANGED <<file, fileStamp>>
       ELSE /\ file' = TruncatedFile
            /\ fileStamp' = NoStamp
            /\ Goto(p, "dump")
            /\ logged' = <<>>
            /\ UNCHANGED arg
    /\ UNCHANGED <<initFile, lastOp, outcome, lastRead, reads, faulted,
                   nCalls, sum, okSum, recorded, seen, haveLock, holder,
                   mem, perr, parsedOver, sensorVars, storeVars>>

Dump(p) ==
    /\ pc[p] = "dump"
    /\ LET w == RecordWrite(file, mem[p], arg[p].io)
       IN  /\ file' = w.file
           /\ fileStamp' = StampAfter(file, w.file, w.outcome = "ok",
                                      fileStamp, now)
           /\ arg' = [arg EXCEPT ![p].res = w.outcome]
           /\ logged' = w.log
    /\ Goto(p, "exit")
    /\ UNCHANGED <<initFile, lastOp, outcome, lastRead, reads, faulted,
                   nCalls, sum, okSum, recorded, seen, haveLock, holder,
                   mem, perr, parsedOver, sensorVars, storeVars>>

\* leaving the with block, then the outer handler and the return
Exit(p) ==
    /\ pc[p] = "exit"
    /\ holder' = FileLock_exit(holder, p, perr[p])
    /\ IF perr[p] # "none"
       THEN /\ Return(p, "error")
            /\ logged' = <<"token_count_error">>
       ELSE /\ Return(p, arg[p].res)
            /\ logged' = <<>>
    /\ UNCHANGED <<file, initFile, lastRead, reads, faulted, nCalls, sum,
                   recorded, seen, haveLock, perr,
                   fileStamp, parsedOver, sensorVars, storeVars>>

StartAny ==
    \E p \in Procs, a \in ConcAgents, n \in ConcAmounts, io \in ConcFaults :
        Start(p, a, n, io)

PreCheckAny == \E p \in Procs : PreCheck(p)

AcquireAny == \E p \in Procs : Acquire(p)

LoadAny == \E p \in Procs : Load(p)

OpenAny == \E p \in Procs : Open(p)

DumpAny == \E p \in Procs : Dump(p)

ExitAny == \E p \in Procs : Exit(p)

NextConc ==
    \/ StartAny
    \/ PreCheckAny
    \/ AcquireAny
    \/ LoadAny
    \/ OpenAny
    \/ DumpAny
    \/ ExitAny

SpecConc == InitConc /\ [][NextConc]_vars

Quiescent == \A p \in Procs : pc[p] = "idle"

\* a ledger file that parses, has fields of the right types and non-negative
\* numbers, and is within the size bound
ValidLedger(f) ==
    /\ f.kind = "obj"
    /\ ~InvalidLedger(f)
    /\ f.total >= 0
    /\ \A i \in 1..Len(f.by_agent) : f.by_agent[i].v >= 0
    /\ \A i \in 1..Len(f.by_phase) : f.by_phase[i].v >= 0

\* C3: with a working lock, once two or more record calls on a valid ledger
\* have all returned successfully, the persisted total is the previous total
\* plus the sum of their amounts.
C3_NoLostUpdate ==
    (/\ haveLock
     /\ ValidLedger(initFile)
     /\ Quiescent
     /\ nCalls >= 2
     /\ ~faulted
     /\ okSum = sum)
    => /\ file.kind = "obj"
       /\ file.total_t = "int"
       /\ file.total = initFile.total + sum

InsideWith == {"load", "open", "dump", "exit"}

\* C10: the lock is held only by a process inside the with block: whichever
\* way a record call left the block, it holds the lock no longer, and when no
\* call is running the lock is free.
C10_LockReleased ==
    /\ \A p \in Procs : holder = p => pc[p] \in InsideWith
    /\ Quiescent => holder = NoProc

\* a call left the with block by an exception and another process holds the
\* lock afterwards
C10_Witness ==
    \E p, q \in Procs :
        /\ p # q
        /\ pc[p] = "idle"
        /\ perr[p] # "none"
        /\ holder = q

\* C11: with a working lock, every step of a record call that changes the
\* ledger file is taken by the process that holds the lock, inside the with
\* block.
C11_WholeCallUnderLock ==
    [][(haveLock /\ file' # file)
       => (holder # NoProc /\ pc[holder] \in InsideWith)]_vars

\* C12: without a lock, after two concurrent record calls with amounts a1 and
\* a2 on a valid ledger with total t, both returned successfully, the file is
\* a valid record whose total is t + a1, t + a2 or t + a1 + a2.
C12_NoLockLosesAtMostOneUpdate ==
    (/\ ~haveLock
     /\ ValidLedger(initFile)
     /\ Quiescent
     /\ nCalls = 2
     /\ ~faulted
     /\ okSum = sum)
    => /\ file.kind = "obj"
       /\ file.total_t = "int" /\ file.agents_ok /\ file.phases_ok
       /\ \E a1, a2 \in ConcAmounts :
              /\ a1 + a2 = sum
              /\ file.total \in {initFile.total + a1, initFile.total + a2,
                                 initFile.total + a1 + a2}

\* ---------------------------------------------------------------------------
\* SpecCompact: the compaction functions applied to arbitrary ledger files
\* ---------------------------------------------------------------------------
CompactFiles ==
    {MissingFile, GarbageFile(1), GarbageFile(MAX_TOKEN_FILE_SIZE + 1),
     NonObjFile}
    \cup { FileOf("obj", tt, t, TRUE, a, TRUE, ph, pad) :
             tt \in {"int", "str", "null"},
             t \in {3, TOTAL_CAP + 1},
             a \in {<<>>, A2, A3},
             ph \in {P1, P3},
             pad \in {0, MAX_TOKEN_FILE_SIZE} }
    \cup { FileOf("obj", "int", 3, aok, IF aok THEN A2 ELSE <<>>,
                  ~aok, IF aok THEN <<>> ELSE P1, pad) :
             aok \in BOOLEAN, pad \in {0, MAX_TOKEN_FILE_SIZE} }

InitCompact ==
    /\ \E f \in CompactFiles : InitLedger(f)
    /\ InitHist
    /\ InitNoSensor
    /\ InitProcs
    /\ haveLock = TRUE

\* cleanup_token_file(token_file) called on the ledger file
Compact(io) ==
    /\ LET c == cleanup_token_file(file, io)
       IN  /\ file' = c.file
           /\ fileStamp' = StampAfter(file, c.file, FALSE, fileStamp, now)
           /\ outcome' = IF c.exc # "none" THEN "raised" ELSE "ok"
           /\ logged' = c.log
    /\ lastOp' = "compact"
    /\ lastRead' = NoRead
    /\ reads' = 0
    /\ faulted' = (faulted \/ io # "none")
    /\ UNCHANGED <<initFile, nCalls, sum, okSum, recorded, seen, procVars,
                   parsedOver, sensorVars, storeVars>>

\* cleanup_memory() called on a MemoryError
CleanupMemory(io) ==
    /\ LET c == cleanup_memory(file, io)
       IN  /\ file' = c.file
           /\ fileStamp' = StampAfter(file, c.file, FALSE, fileStamp, now)
           /\ parsedOver' = (parsedOver \/ c.parsed)
    /\ outcome' = "ok"
    /\ logged' = <<>>
    /\ lastOp' = "cleanup_memory"
    /\ lastRead' = NoRead
    /\ reads' = 0
    /\ faulted' = (faulted \/ io # "none")
    /\ UNCHANGED <<initFile, nCalls, sum, okSum, recorded, seen, procVars,
                   sensorVars, storeVars>>

CompactAny == \E io \in RecordFaults : Compact(io)

CleanupMemoryAny == \E io \in RecordFaults : CleanupMemory(io)

NextCompact == CompactAny \/ CleanupMemoryAny

SpecCompact == InitCompact /\ [][NextCompact]_vars

\* a parseable object with fields of the right types
WellFormed(f) ==
    f.kind = "obj" /\ f.total_t = "int" /\ f.agents_ok /\ f.phases_ok

\* C13: compacting, without an I/O fault, a well-formed ledger file that
\* exceeds MAX_TOKEN_FILE_SIZE keeps total (capped at TOTAL_CAP), keeps the
\* COMPACT_KEEP_AGENTS by_agent entries with the highest counts and at most
\* MAX_PHASE_TRACKING by_phase entries, sets the timestamp to now and writes
\* the result back.
C13_CompactKeepsTotal ==
    [][(/\ lastOp' = "compact"
        /\ ~faulted'
        /\ WellFormed(file)
        /\ FileSize(file) > MAX_TOKEN_FILE_SIZE)
       => (/\ WellFormed(file')
           /\ file'.total = Min(file.total, TOTAL_CAP)
           /\ file'.by_agent = TopN(file.by_agent, COMPACT_KEEP_AGENTS)
           /\ file'.by_phase = TopN(file.by_phase, MAX_PHASE_TRACKING)
           /\ fileStamp' = Stamp("naive", now))]_vars

\* C14: compact never raises, and after it the ledger file is either absent
\* or a well-formed record within the bounds.
C14_CompactNeverRaises ==
    lastOp = "compact"
    => /\ outcome # "raised"
       /\ \/ file.kind = "missing"
          \/ /\ WellFormed(file)
             /\ FileSize(file) <= MAX_TOKEN_FILE_SIZE
             /\ Len(file.by_agent) <= MAX_AGENT_TRACKING
             /\ Len(file.by_phase) <= MAX_PHASE_TRACKING

\* C15: json.load never runs on a ledger file larger than MAX_TOKEN_FILE_SIZE.
C15_NoOversizedParse == ~parsedOver

\* ---------------------------------------------------------------------------
\* SpecSensor: compass_context_active among the operations that write the
\* files it reads, from arbitrary files, with the clock advancing
\* ---------------------------------------------------------------------------
MaxTime == 4
\* the clock runs from 0 to MaxTime

MaxTrackCalls == 1
\* tracked invocations (prompts routed, agent usages recorded) per behaviour
\* of SpecSensor

AwareZero == Stamp("aware", 0)

SensorSessions ==
    { MissingSession,
      SessionOf("obj", AwareZero, AwareZero),
      SessionOf("obj", Stamp("naive", 0), Stamp("naive", 0)),
      SessionOf("nonobj", NoStamp, NoStamp),
      SessionOf("garbage", NoStamp, NoStamp) }

SensorJournals ==
    { <<>>,
      <<LogEntry("nonobj", "", FALSE, NoStamp),
        LogEntry("obj", "token_tracking", FALSE, AwareZero)>>,
      <<LogEntry("obj", "other", TRUE, AwareZero)>> }

SensorDocs == {DocsOf(FALSE, {}), DocsOf(TRUE, {0})}

SensorFiles ==
    { MissingFile,
      NonObjFile,
      FileOf("obj", "int", 2, TRUE, <<Entry("agent-a", 2)>>, TRUE, <<>>, 0),
      FileOf("obj", "int", 3, TRUE, A2, TRUE, P1, 0),
      FileOf("obj", "int", 3, FALSE, <<>>, TRUE, P1, 0) }

\* the agents detect_compass_agent_in_prompt can return
TrackedAgents == {"compass-captain", "compass-coder"}

InitSensor ==
    /\ \E f \in SensorFiles :
          /\ file = f
          /\ initFile = f
          /\ fileStamp \in (IF f.kind # "obj" THEN {NoStamp}
                            ELSE IF f.by_agent = <<Entry("agent-a", 2)>>
                            THEN {Stamp("naive", 0), AwareZero}
                            ELSE {Stamp("naive", 0)})
    /\ parsedOver = FALSE
    /\ lastOp = "none"
    /\ outcome = "none"
    /\ lastRead = NoRead
    /\ reads = 0
    /\ logged = <<>>
    /\ InitHist
    /\ InitProcs
    /\ haveLock = TRUE
    /\ now = 0
    /\ status = FALSE
    /\ session \in SensorSessions
    /\ journal \in SensorJournals
    /\ docs \in SensorDocs
    /\ verdict = NoVerdict
    /\ checks = 0
    /\ bySystem = FALSE
    /\ InitNoStore

ledgerVars == <<file, initFile, fileStamp, parsedOver, lastRead, reads,
                faulted, nCalls, sum, okSum, recorded, seen>>

Tick ==
    /\ now < MaxTime
    /\ now' = now + 1
    /\ lastOp' = "tick"
    /\ outcome' = "ok"
    /\ logged' = <<>>
    /\ verdict' = NoVerdict
    /\ checks' = 0
    /\ UNCHANGED <<ledgerVars, procVars, status, session, journal, docs,
                   bySystem,
                   storeVars>>

\* a prompt is routed: the journal entry of line 815, then
\* inject_compass_context: the status file and the session marker
Route ==
    /\ nCalls < MaxTrackCalls
    /\ nCalls' = nCalls + 1
    /\ LET c == create_compass_session_tracking(session, now, "none")
           l == <<"prompt_routing", "status_file">> \o c.log
       IN  /\ session' = c.session
           /\ journal' = JournalAppend(journal, LogAll(l, now))
           /\ logged' = l
    /\ status' = TRUE
    /\ bySystem' = TRUE
    /\ lastOp' = "route"
    /\ outcome' = "ok"
    /\ verdict' = NoVerdict
    /\ checks' = 0
    /\ UNCHANGED <<file, initFile, fileStamp, parsedOver, lastRead, reads,
                   faulted, sum, okSum, recorded, seen, procVars, now, docs,
                   storeVars>>

\* the token tracking of a Task tool call whose prompt names a tracked agent
\* (lines 1639-1667), one step per operator: the result of each step is the
\* argument of the next

\* line 1665: token_tracking is logged unless the status refresh raised
TrackResult(r, d, u, delegated, refreshed) ==
    [file |-> u.file,
     wrote |-> r.outcome = "ok" \/ d.outcome = "ok",
     parsed |-> /\ refreshed
                /\ ParsedByRead(d.file, "none")
                /\ FileSize(d.file) > MAX_TOKEN_FILE_SIZE,
     outcome |-> IF u.outcome = "raised" THEN "raised" ELSE r.outcome,
     log |-> r.log
             \o (IF delegated THEN <<"specialist_delegation">> ELSE <<>>)
             \o d.log \o u.log
             \o (IF u.outcome = "raised" THEN <<>> ELSE <<"token_tracking">>)]

\* line 1662, update_compass_status_with_tokens: the status file, if there is
\* one and its update is due, is refreshed from a read of the ledger
TrackStatus(r, d, delegated, refreshed) ==
    TrackResult(r, d,
                IF refreshed
                THEN get_current_session_tokens(d.file, "none")
                ELSE [file |-> d.file, outcome |-> "ok", val |-> ZeroTokens,
                      log |-> <<>>],
                delegated, refreshed)

\* lines 1653-1659: a compass-coder call (its name holds the keyword "code" of
\* predict_specialist_delegation) logs the delegation and records it under
\* delegation_chain
TrackDelegation(r, delegated, delegation_tokens, refreshed) ==
    TrackStatus(r,
                IF delegated
                THEN update_session_token_count(r.file, "delegation_chain",
                                                delegation_tokens, "none")
                ELSE [file |-> r.file, outcome |-> "none", log |-> <<>>],
                delegated, refreshed)

\* line 1650: the usage of the agent is recorded
handle_pre_tool_use_with_token_tracking(f, st, agent_type, token_count, delegation_tokens, due) ==
    TrackDelegation(update_session_token_count(f, agent_type, token_count,
                                               "none"),
                    agent_type = "compass-coder", delegation_tokens,
                    st /\ due)

TrackApply(h) ==
    /\ file' = h.file
    /\ fileStamp' = StampAfter(file, h.file, h.wrote, fileStamp, now)
    /\ parsedOver' = (parsedOver \/ h.parsed)
    /\ outcome' = h.outcome
    /\ journal' = JournalAppend(journal, LogAll(h.log, now))
    /\ logged' = h.log

\* a Task tool call whose prompt names a tracked agent: the enforcement check
\* at line 1606 returns and lets a compass-captain call through, then the
\* usage is tracked
Track(agent_type, token_count, delegation_tokens, due) ==
    /\ nCalls < MaxTrackCalls
    /\ compass_context_active(status, session, journal, docs, file, fileStamp,
                              now).exc = "none"
    /\ TrackApply(handle_pre_tool_use_with_token_tracking(
                      file, status, agent_type, token_count,
                      delegation_tokens, due))
    /\ lastOp' = "track"
    /\ lastRead' = NoRead
    /\ reads' = 0
    /\ nCalls' = nCalls + 1
    /\ verdict' = NoVerdict
    /\ checks' = 0
    /\ UNCHANGED <<initFile, faulted, sum, okSum, recorded, seen, procVars, now,
                   status, session, docs, bySystem,
                   storeVars>>

\* the analysis completes: the status file is removed (line 2596)
Complete ==
    /\ status
    /\ status' = FALSE
    /\ journal' = JournalAppend(journal, LogAll(<<"compass_complete">>, now))
    /\ logged' = <<"compass_complete">>
    /\ lastOp' = "complete"
    /\ outcome' = "ok"
    /\ verdict' = NoVerdict
    /\ checks' = 0
    /\ UNCHANGED <<ledgerVars, procVars, now, session, docs, bySystem,
                   storeVars>>

\* a documentation artifact docs/*.md is written
TouchDocs ==
    /\ docs # DocsOf(TRUE, {now})
    /\ docs' = DocsOf(TRUE, {now})
    /\ lastOp' = "docs"
    /\ outcome' = "ok"
    /\ logged' = <<>>
    /\ verdict' = NoVerdict
    /\ checks' = 0
    /\ UNCHANGED <<ledgerVars, procVars, now, status, session, journal,
                   bySystem,
                   storeVars>>

\* a call that writes last_activity into the session marker on its way
IsActive_refreshing_session ==
    /\ verdict' = compass_context_active(status, session, journal, docs,
                                         file, fileStamp, now)
    /\ session' = IF session.kind = "obj"
                  THEN [session EXCEPT !.activity = Stamp("aware", now)]
                  ELSE session
    /\ checks' = Min(checks + 1, 2)
    /\ parsedOver' = (parsedOver
                      \/ (/\ verdict'.evaluated = 5
                          /\ file.kind # "missing"
                          /\ FileSize(file) > MAX_TOKEN_FILE_SIZE))
    /\ lastOp' = "isActive"
    /\ outcome' = IF verdict'.exc # "none" THEN "raised" ELSE "ok"
    /\ logged' = <<>>
    /\ UNCHANGED <<file, initFile, fileStamp, lastRead, reads, faulted,
                   nCalls, sum, okSum, recorded, seen, procVars, now, status,
                   journal, docs, bySystem,
                   storeVars>>

\* compass_context_active() is called: it only reads
IsActive ==
    /\ verdict' = compass_context_active(status, session, journal, docs,
                                         file, fileStamp, now)
    /\ checks' = Min(checks + 1, 2)
    /\ parsedOver' = (parsedOver
                      \/ (/\ verdict'.evaluated = 5
                          /\ file.kind # "missing"
                          /\ FileSize(file) > MAX_TOKEN_FILE_SIZE))
    /\ lastOp' = "isActive"
    /\ outcome' = IF verdict'.exc # "none" THEN "raised" ELSE "ok"
    /\ logged' = <<>>
    /\ UNCHANGED <<file, initFile, fileStamp, lastRead, reads, faulted,
                   nCalls, sum, okSum, recorded, seen, procVars, now, status,
                   session, journal, docs, bySystem,
                   storeVars>>

TrackAny ==
    \E a \in TrackedAgents, due \in BOOLEAN : Track(a, 1, 1, due)

NextSensor ==
    \/ Tick
    \/ Route
    \/ TrackAny
    \/ Complete
    \/ TouchDocs
    \/ IsActive

SpecSensor == InitSensor /\ [][NextSensor]_vars

\* The five signals as the windows define them: a timestamp is fresh when it
\* parses and is less than its window old.
Fresh(ts, window) == ts.fmt # "bad" /\ now - ts.t < window

SessionFresh ==
    /\ session.kind = "obj"
    /\ Fresh(session.start, SESSION_WINDOW)
       \/ Fresh(session.activity, ACTIVITY_WINDOW)

JournalTail == {i \in 1..Len(journal) : i > Len(journal) - JOURNAL_TAIL}

JournalRecent ==
    \E i \in JournalTail :
        /\ journal[i].kind = "obj"
        /\ journal[i].action \in compass_actions \/ journal[i].compass_agent
        /\ Fresh(journal[i].ts, ACTIVITY_WINDOW)

LedgerRecent ==
    /\ file.kind = "obj"
    /\ \/ Fresh(fileStamp, ACTIVITY_WINDOW)
       \/ /\ file.agents_ok
          /\ \E i \in 1..Len(file.by_agent) :
                 startswith_compass(file.by_agent[i].k)

Signals == <<status, SessionFresh, JournalRecent, RecentDocs(docs, now),
             LedgerRecent>>

FirstTrue(sig) == CHOOSE i \in 1..Len(sig) : sig[i] /\ \A j \in 1..(i - 1) : ~sig[j]

\* C16: compass_context_active returns true exactly when one of the five
\* signals holds, and evaluates them in order up to the first true one.
C16_TrueIffSomeSignal ==
    verdict.valid
    => /\ verdict.exc = "none"
       /\ verdict.val = (\E i \in 1..5 : Signals[i])
       /\ verdict.val => verdict.evaluated = FirstTrue(Signals)

\* C17: with no status file, a session marker written by
\* create_compass_session_tracking whose session_start is less than
\* SESSION_WINDOW old or whose last_activity is less than ACTIVITY_WINDOW old
\* makes compass_context_active return true at the session signal.
C17_FreshSessionMarkerIsActive ==
    (verdict.valid /\ ~status /\ bySystem /\ SessionFresh)
    => (verdict.val /\ verdict.evaluated = 2)

\* C18: a compass_context_active call made right after a prompt was routed
\* or the usage of a tracked agent was recorded, with a fresh session
\* marker, returns true.
C18_ActiveAfterTrackedInvocation ==
    [][(/\ lastOp \in {"route", "track"}
        /\ outcome = "ok"
        /\ SessionFresh
        /\ lastOp' = "isActive")
       => (verdict'.exc = "none" /\ verdict'.val)]_vars

\* no timestamp the sensor looks at is inside its window
AllStale ==
    /\ ~SessionFresh
    /\ \A i \in 1..Len(journal) : ~Fresh(journal[i].ts, ACTIVITY_WINDOW)
    /\ ~RecentDocs(docs, now)
    /\ ~Fresh(fileStamp, ACTIVITY_WINDOW)

\* the session marker and the ledger are absent or hold a JSON object, the
\* ledger's by_agent is an object, and every journal line is a JSON object
ReadableFiles ==
    /\ session.kind \in {"missing", "obj"}
    /\ file.kind \in {"missing", "obj"}
    /\ file.agents_ok
    /\ \A i \in 1..Len(journal) : journal[i].kind = "obj"

\* C19: with no status file, readable files and every timestamp outside its
\* window, compass_context_active returns false.
C19_InactiveWhenAllStale ==
    (verdict.valid /\ ~status /\ AllStale /\ ReadableFiles)
    => (verdict.exc = "none" /\ ~verdict.val)

\* C20: compass_context_active changes none of the files it reads, and a
\* call that directly follows another call returns the same verdict.
C20_SensorDeterministic ==
    [][lastOp' = "isActive"
       => /\ UNCHANGED <<status, session, journal, docs, file, fileStamp>>
          /\ lastOp = "isActive" => verdict' = verdict]_vars

\* two calls in a row, answered from the ledger
C20_Witness ==
    checks = 2 /\ verdict.valid /\ verdict.val /\ verdict.evaluated = 5

\* C21: compass_context_active never raises: whatever the session marker, the
\* journal and the ledger hold, the call ends with a boolean verdict.
C21_SensorNeverRaises ==
    verdict.valid => (verdict.exc = "none" /\ verdict.val \in BOOLEAN)

\* C30: a record call on a valid ledger whose write of the ledger file fails
\* leaves the file with the content it had before the call.
C30_FailedWriteIsNoOp ==
    [][(ValidLedger(file) /\ lastOp' = "record" /\ outcome' = "write_error")
       => file' = file]_vars

\* ---------------------------------------------------------------------------
\* SpecCache: put, get and resolve calls on the cache as the clock advances
\* ---------------------------------------------------------------------------
\* put(d, k, p): save_knowledge_cache under the key of (d, k)
Put(d, k, p) ==
    /\ cache' = save_knowledge_cache(cache, get_cache_key(d, k), p, now)
    /\ answer' = NoAnswer
    /\ lastQuery' = QueryOf(d, k, p, now, "put")
    /\ lastPut' = QueryOf(d, k, p, now, "put")
    /\ lastOp' = "put"
    /\ outcome' = "ok"
    /\ lastIo' = "none"
    /\ logged' = <<"cache_saved">>
    /\ UNCHANGED <<ledgerVars, procVars, sensorVars, scripts, logLines,
                   backup, stray>>

GetApply(r) ==
    /\ cache' = r.cache
    /\ answer' = Answer(IF r.val = None THEN "miss" ELSE "hit", r.val)
    /\ logged' = r.log

\* get(d, k): load_cached_knowledge under the key of (d, k)
Get(d, k) ==
    /\ GetApply(load_cached_knowledge(cache, get_cache_key(d, k), now))
    /\ lastQuery' = QueryOf(d, k, None, now, "get")
    /\ lastOp' = "get"
    /\ outcome' = "ok"
    /\ lastIo' = "none"
    /\ UNCHANGED <<ledgerVars, procVars, sensorVars, scripts, logLines,
                   backup, stray, lastPut>>

ResolveApply(r, d, k, run, p) ==
    /\ cache' = r.cache
    /\ scripts' = r.scripts
    /\ answer' = r.answer
    /\ logged' = r.log
    /\ lastIo' = IF r.ran THEN run ELSE "none"
    /\ lastPut' = IF r.cache[get_cache_key(d, k)] = cache[get_cache_key(d, k)]
                  THEN lastPut
                  ELSE IF r.cache[get_cache_key(d, k)].present
                  THEN QueryOf(d, k, p, now, "resolve")
                  ELSE NoQuery

\* resolve(d, k): execute_knowledge_query_subprocess; run is how the query
\* goes if it is started and p what it prints
Resolve(d, k, run, p) ==
    /\ ResolveApply(execute_knowledge_query_subprocess(cache, scripts, d, k,
                                                       run, p, now),
                    d, k, run, p)
    /\ lastQuery' = QueryOf(d, k, None, now, "resolve")
    /\ lastOp' = "resolve"
    /\ outcome' = "ok"
    /\ UNCHANGED <<ledgerVars, procVars, sensorVars, logLines, backup, stray>>

InitCache ==
    /\ InitLedger(MissingFile)
    /\ InitHist
    /\ InitNoSensor
    /\ InitProcs
    /\ haveLock = TRUE

NextCache ==
    \/ Tick
    \/ \E d \in Descriptions, k \in KeywordLists, p \in Payloads : Put(d, k, p)
    \/ \E d \in Descriptions, k \in KeywordLists : Get(d, k)
    \/ \E d \in Descriptions, k \in KeywordLists, run \in QueryOutcomes,
          p \in Payloads : Resolve(d, k, run, p)

SpecCache == InitCache /\ [][NextCache]_vars

\* ---------------------------------------------------------------------------
\* External-query cache claims
\* ---------------------------------------------------------------------------
KeywordSet(k) == {k[i] : i \in 1..Len(k)}

\* the last call asked for what the last put stored
SameQuery == lastPut.by = "put" /\ lastQuery.d = lastPut.d /\ lastQuery.kws = lastPut.kws

\* C22: after put(d, k, p) at time T, a get(d, k) at time t returns p when
\* t - T is less than the time-to-live, and when t - T is equal to or greater
\* than the time-to-live it reports a miss and the entry is gone.
C22_HitBeforeTtlMissFromTtl ==
    (lastOp = "get" /\ SameQuery) =>
        IF now - lastPut.t < KNOWLEDGE_CACHE_TTL
        THEN answer = Answer("hit", lastPut.payload)
        ELSE /\ answer = Answer("miss", None)
             /\ ~cache[get_cache_key(lastQuery.d, lastQuery.kws)].present

QueryFailures == {"timeout", "nonzero", "badjson"}

ErrorStatuses == {"timeout", "subprocess_error", "setup_error"}

\* the entry under cache_key that a lookup at time t deletes as stale
StaleAt(c, cache_key, t) == c[cache_key].present /\ t - c[cache_key].mtime > KNOWLEDGE_CACHE_TTL

\* C23 as stated: when the external query times out, exits non-zero or prints
\* output that cannot be parsed, resolve returns a structured error and the
\* cache holds exactly the entries it held before the call.
C23_FailedQueryLeavesCache ==
    [][(lastOp' = "resolve" /\ lastIo' \in QueryFailures)
       => (answer'.status \in ErrorStatuses /\ cache' = cache)]_vars

\* C23 as amended: when the external query times out, exits non-zero or prints
\* output that cannot be parsed, resolve returns a structured error and stores
\* nothing: every entry is as it was before the call, except that an entry
\* under the query's key that had outlived the time-to-live has been deleted
\* by the lookup that precedes the query.
C23_FailedQueryStoresNothing ==
    [][(lastOp' = "resolve" /\ lastIo' \in QueryFailures)
       => LET cache_key == get_cache_key(lastQuery'.d, lastQuery'.kws)
          IN  /\ answer'.status \in ErrorStatuses
              /\ answer'.payload = None
              /\ \A k \in CacheKeys :
                    cache'[k] = IF k = cache_key /\ StaleAt(cache, k, now)
                                THEN NoEntry ELSE cache[k]]_vars

\* a query exited non-zero while the cache held an entry under another key
C23_Witness ==
    /\ lastOp = "resolve"
    /\ lastIo = "nonzero"
    /\ answer.status = "subprocess_error"
    /\ \E k \in CacheKeys : cache[k].present

\* C24: after resolve returns, whatever the outcome of the query, the
\* temporary script of the query no longer exists.
C24_ScriptRemoved ==
    lastOp = "resolve" => get_cache_key(lastQuery.d, lastQuery.kws) \notin scripts

\* C25: the cache key depends only on the description and the set of
\* keywords: a get whose keyword list is a reordering of the list of the put
\* before it finds the entry of that put.
C25_KeyIgnoresKeywordOrder ==
    (/\ lastOp = "get"
     /\ lastPut.by = "put"
     /\ lastQuery.d = lastPut.d
     /\ KeywordSet(lastQuery.kws) = KeywordSet(lastPut.kws)
     /\ now - lastPut.t < KNOWLEDGE_CACHE_TTL)
    => answer = Answer("hit", lastPut.payload)

\* a get with the keywords in the other order found the entry of the put
C25_Witness ==
    /\ lastOp = "get"
    /\ lastPut.by = "put"
    /\ lastPut.kws = <<"memory", "auth">>
    /\ lastQuery.kws = <<"auth", "memory">>
    /\ answer = Answer("hit", lastPut.payload)

\* ---------------------------------------------------------------------------
\* SpecJournal: log_handler_activity calls on the journal file, its backup
\* and the fallback journal of the current directory
\* ---------------------------------------------------------------------------
MaxLogLen == 4

JournalActions == {"token_tracking", "session_tracking"}

\* journals the handler can have left: empty, under the bound, at the bound,
\* over the bound
InitJournals ==
    {<<>>, <<"token_tracking">>,
     <<"log_rotated", "session_tracking">>,
     <<"token_tracking", "session_tracking", "token_tracking">>}

InitBackups == {NoBackup, BackupOf(<<"session_tracking", "log_rotated">>)}

\* whether the fault io can occur in an append to the journal as it is
FaultApplies(io) ==
    /\ io \in {"unlink", "rename", "marker", "truncate"} => Len(logLines) > MAX_LOG_SIZE
    /\ io = "unlink" => backup.exists
    /\ io = "stat" => logLines # <<>>

AppendApply(r) ==
    /\ logLines' = r.lines
    /\ backup' = r.backup
    /\ stray' = r.stray
    /\ outcome' = IF r.exc = "none" THEN "ok" ELSE "raised"

\* log_handler_activity(action, details) with the I/O fault io
AppendEntry(action, io) ==
    /\ Len(logLines) <= MaxLogLen
    /\ FaultApplies(io)
    /\ AppendApply(AppendJournal(logLines, backup, stray, action, io))
    /\ logged' = <<action>>
    /\ lastIo' = io
    /\ lastOp' = "append"
    /\ UNCHANGED <<ledgerVars, procVars, sensorVars, cache, scripts, answer,
                   lastQuery, lastPut>>

InitJournal ==
    /\ InitLedger(MissingFile)
    /\ InitHist
    /\ InitProcs
    /\ haveLock = TRUE
    /\ InitSensorIdle
    /\ cache = [k \in CacheKeys |-> NoEntry]
    /\ scripts = {}
    /\ answer = NoAnswer
    /\ lastQuery = NoQuery
    /\ lastPut = NoQuery
    /\ lastIo = "none"
    /\ stray = <<>>
    /\ logLines \in InitJournals
    /\ backup \in InitBackups

NextJournal ==
    \E action \in JournalActions, io \in AppendFaults : AppendEntry(action, io)

SpecJournal == InitJournal /\ [][NextJournal]_vars

\* ---------------------------------------------------------------------------
\* Journal claims
\* ---------------------------------------------------------------------------
\* C26: an append that finds the journal over the size bound rotates first:
\* afterwards the backup holds exactly the previous content of the journal,
\* whatever the backup held before, and the journal holds the rotation marker
\* followed by the new entry; an append that finds the journal at or under
\* the bound leaves the earlier entries as they are and adds the new entry at
\* the end.
C26_RotateThenAppend ==
    [][(lastOp' = "append" /\ lastIo' = "none")
       => IF Len(logLines) > MAX_LOG_SIZE
          THEN /\ backup' = BackupOf(logLines)
               /\ logLines' = <<"log_rotated", logged'[1]>>
          ELSE /\ logLines' = Append(logLines, logged'[1])
               /\ backup' = backup]_vars

\* a rotation has just replaced a backup by a journal that was over the bound
C26_Witness ==
    /\ lastOp = "append"
    /\ lastIo = "none"
    /\ backup.exists
    /\ Len(backup.lines) > MAX_LOG_SIZE
    /\ Len(logLines) = 2
    /\ logLines[1] = "log_rotated"

\* C27: when the rename of a rotation is the step that fails, the journal is
\* truncated in place and afterwards holds the truncation marker followed by
\* the new entry, and the append returns normally.
C27_RenameFailureTruncates ==
    [][(lastOp' = "append" /\ lastIo' = "rename")
       => (/\ logLines' = <<"log_truncated", logged'[1]>>
           /\ outcome' = "ok")]_vars

\* an append whose rename failed has returned
C27_Witness ==
    /\ lastOp = "append"
    /\ lastIo = "rename"
    /\ Len(logLines) = 2
    /\ logLines[1] = "log_truncated"
    /\ outcome = "ok"

\* the step wrote its entry at the end of the journal f
WrittenTo(f) == f' # f /\ f'[Len(f')] = logged'[1]

\* C28 as stated: an append that meets an I/O failure does not raise and the
\* entry is dropped.
C28_FailureDropsEntry ==
    [][(lastOp' = "append" /\ lastIo' # "none")
       => (/\ outcome' = "ok"
           /\ ~WrittenTo(logLines)
           /\ ~WrittenTo(stray))]_vars

\* C28 as amended: an append that meets an I/O failure does not raise; the
\* entry is dropped when the journal cannot be examined, opened or written;
\* when the log directory cannot be created the entry is appended to the
\* journal of the current directory, and when the rotation fails the entry is
\* still appended to the journal.
C28_FailureNeverRaises ==
    [][(lastOp' = "append" /\ lastIo' # "none")
       => (/\ outcome' = "ok"
           /\ lastIo' \in {"stat", "open_a"}
                 => (~WrittenTo(logLines) /\ ~WrittenTo(stray))
           /\ lastIo' = "mkdir"
                 => (WrittenTo(stray) /\ logLines' = logLines)
           /\ lastIo' \in {"unlink", "rename", "marker", "truncate"}
                 => (WrittenTo(logLines) /\ stray' = stray))]_vars

\* an append that could not read the size of the journal has returned
C28_Witness ==
    /\ lastOp = "append"
    /\ lastIo = "stat"
    /\ outcome = "ok"
    /\ logLines # <<>>

\* ---------------------------------------------------------------------------
\* SpecSession: session-tracking calls on the session marker as the clock
\* advances
\* ---------------------------------------------------------------------------
SessionFaults == {"none", "open_w", "dump"}

SessionApply(session2, exc, log) ==
    /\ session' = session2
    /\ outcome' = IF exc = "none" THEN "ok" ELSE "raised"
    /\ logged' = log
    /\ journal' = JournalAppend(journal, LogAll(log, now))

CreateApply(c) == SessionApply(c.session, "none", c.log)

\* create_compass_session_tracking() with the write fault io
CreateSession(io) ==
    /\ CreateApply(create_compass_session_tracking(session, now, io))
    /\ lastOp' = "create"
    /\ lastIo' = io
    /\ bySystem' = TRUE
    /\ verdict' = NoVerdict
    /\ checks' = 0
    /\ UNCHANGED <<ledgerVars, procVars, now, status, docs, nCalls, cache,
                   scripts, answer, logLines, backup, stray, lastQuery,
                   lastPut>>

UpdateApply(u) == SessionApply(u.session, u.exc, u.log)

\* update_compass_session_activity() with the write fault io
UpdateActivity(io) ==
    /\ UpdateApply(update_compass_session_activity(session, now, io))
    /\ lastOp' = "update"
    /\ lastIo' = io
    /\ bySystem' = TRUE
    /\ verdict' = NoVerdict
    /\ checks' = 0
    /\ UNCHANGED <<ledgerVars, procVars, now, status, docs, nCalls, cache,
                   scripts, answer, logLines, backup, stray, lastQuery,
                   lastPut>>

InitSession ==
    /\ InitLedger(MissingFile)
    /\ InitHist
    /\ InitProcs
    /\ haveLock = TRUE
    /\ InitNoStore
    /\ now = 0
    /\ status = FALSE
    /\ journal = <<>>
    /\ docs = DocsOf(FALSE, {})
    /\ verdict = NoVerdict
    /\ checks = 0
    /\ bySystem = FALSE
    /\ session \in SensorSessions

NextSession ==
    \/ Tick
    \/ \E io \in SessionFaults : CreateSession(io)
    \/ \E io \in SessionFaults : UpdateActivity(io)

SpecSession == InitSession /\ [][NextSession]_vars

\* a marker file that holds an object with both timestamps
ValidMarker(s) == s.kind = "obj" /\ s.start # NoStamp /\ s.activity # NoStamp

\* C29: a session-tracking call on a valid session marker that leaves a valid
\* marker keeps session_start, does not decrease last_activity and leaves
\* last_activity no earlier than session_start; session_start is set only
\* by the call that creates the marker and by a call that found the content
\* of the marker corrupted.
C29_SessionStartKept ==
    [][(lastOp' \in {"create", "update"} /\ session'.kind = "obj")
       => (/\ ValidMarker(session)
              => (/\ session'.start = session.start
                  /\ session'.activity.t >= session.activity.t
                  /\ session'.activity.t >= session'.start.t)
           /\ session'.start # session.start
              => session.kind \in {"missing", "garbage", "nonobj"})]_vars

\* a later create call has refreshed a marker whose session began earlier
C29_Witness ==
    /\ lastOp = "create"
    /\ lastIo = "none"
    /\ ValidMarker(session)
    /\ session.start.t < session.activity.t

\* ---------------------------------------------------------------------------
\* Claims on repeated and failed queries
\* ---------------------------------------------------------------------------
\* C32: after a resolve succeeded for a description and keyword set, a later
\* resolve for the same description and keyword set within the time-to-live
\* returns the same payload and does not start the external process.
C32_RepeatedResolveServedFromCache ==
    [][(/\ lastOp' = "resolve"
        /\ lastPut.by = "resolve"
        /\ PayloadStatus(lastPut.payload) = "success"
        /\ lastQuery'.d = lastPut.d
        /\ KeywordSet(lastQuery'.kws) = KeywordSet(lastPut.kws)
        /\ now - lastPut.t < KNOWLEDGE_CACHE_TTL)
       => (/\ answer' = Answer("success", lastPut.payload)
           /\ lastIo' = "none"
           /\ scripts' = scripts
           /\ cache' = cache)]_vars

\* a resolve with the keywords in the other order, one tick after the resolve
\* that ran the query, was answered without a query
C32_Witness ==
    /\ lastOp = "resolve"
    /\ lastIo = "none"
    /\ lastPut.by = "resolve"
    /\ lastPut.kws = <<"auth", "memory">>
    /\ lastQuery.kws = <<"memory", "auth">>
    /\ lastPut.t < now
    /\ answer = Answer("success", lastPut.payload)

\* C37: resolve stores only a successful query result: a payload in which the
\* query itself reports an error is never written to the cache.
C37_OnlySuccessStored ==
    [][lastOp' = "resolve"
       => \A k \in CacheKeys :
             (cache'[k] # cache[k] /\ cache'[k].present)
                => PayloadStatus(cache'[k].payload) = "success"]_vars

\* C33: a session marker that is unparseable or holds a JSON value that is
\* not an object is reset to a fresh marker by the next session-tracking call,
\* create or update, and that call returns normally.
C33_MalformedMarkerReset ==
    [][(/\ lastOp' \in {"create", "update"}
        /\ lastIo' = "none"
        /\ session.kind \in {"garbage", "nonobj"})
       => (/\ outcome' = "ok"
           /\ session' = SessionOf("obj", Stamp("naive", now),
                                   Stamp("naive", now)))]_vars

\* the sensor came to the journal: no status file, no fresh session marker
JournalConsulted ==
    /\ verdict.valid
    /\ verdict.exc = "none"
    /\ ~status
    /\ ~check_compass_session_active(session, now).val

\* C34: the journal signal is true exactly when one of the last JOURNAL_TAIL
\* journal lines carries a recognized activity tag with a timestamp less than
\* ACTIVITY_WINDOW old; lines that do not parse are skipped.  Stated for
\* journals whose lines are objects or unparseable.
C34_JournalSignalFromTail ==
    (/\ JournalConsulted
     /\ \A i \in 1..Len(journal) : journal[i].kind \in {"obj", "garbage"})
    => ((verdict.val /\ verdict.evaluated = 3) <=> JournalRecent)

\* ---------------------------------------------------------------------------
\* SpecSum: record calls from no ledger file, one more than
\* MAX_AGENT_TRACKING of them, so that both evictions and the by_agent limit
\* of validate_and_clean_token_data are met
\* ---------------------------------------------------------------------------
RecordSum ==
    \E a \in ShortAgents, n \in 0..MaxAmount :
        Record(a, n, "none", MAX_AGENT_TRACKING + 1)

SpecSum == InitFresh /\ [][RecordSum]_vars

\* C36: in every ledger state reached from no ledger file by record calls,
\* the by_agent counts add up to at most total and so do the by_phase counts.
C36_BucketsWithinTotal ==
    (file.kind = "obj" /\ file.total_t = "int")
    => /\ file.agents_ok => SumVals(file.by_agent) <= file.total
       /\ file.phases_ok => SumVals(file.by_phase) <= file.total

\* an eviction has left by_agent with less than the total
C36_Witness ==
    /\ lastOp = "record"
    /\ outcome = "ok"
    /\ Cardinality(seen) > MAX_AGENT_TRACKING
    /\ file.total = sum
    /\ SumVals(file.by_agent) < file.total
    /\ SumVals(file.by_agent) > 0

\* ---------------------------------------------------------------------------
\* SpecHook: PreToolUse invocations for a Task call of compass-knowledge-query
\* whose prompt names no tracked agent, as the clock advances.  main runs
\* handle_pre_tool_use_with_token_tracking, which resolves the query (lines
\* 1719-1726), and then check_compass_agent_activity, which resolves it again
\* when the status file exists (lines 2727-2747) and refreshes the session
\* marker.  The file latest_knowledge_result.json is not part of the state.
\* ---------------------------------------------------------------------------
MaxHookCalls == 2
\* hook invocations per behaviour of SpecHook

HookResult(r, se, exc, log) ==
    [cache |-> r.cache, scripts |-> r.scripts, answer |-> r.answer,
     session |-> se, exc |-> exc, log |-> log]

\* lines 2745-2753: the second resolve, then update_compass_session_activity
ActivityResolved(r2, u, log1) ==
    HookResult(r2, u.session, u.exc,
               log1 \o <<"knowledge_query_intercepted">> \o r2.log
                    \o <<"knowledge_query_subprocess_completed">> \o u.log)

\* check_compass_agent_activity after the first resolve left r1
check_compass_agent_activity(st, r1, se, d, k, run2, p, t) ==
    IF ~st THEN HookResult(r1, se, "none", r1.log)
    ELSE ActivityResolved(
             execute_knowledge_query_subprocess(r1.cache, r1.scripts, d, k,
                                                run2, p, t),
             update_compass_session_activity(se, t, "none"), r1.log)

\* how many external processes the entries of log stand for
RECURSIVE Dispatches(_)
Dispatches(log) ==
    IF log = <<>> THEN 0
    ELSE (IF Head(log) = "knowledge_subprocess_start" THEN 1 ELSE 0)
         + Dispatches(Tail(log))

\* main's closing entry: "processed" (line 741), or "error" from its handler
\* of an exception (line 757)
MainLog(h) == h.log \o <<IF h.exc = "none" THEN "PreToolUse" ELSE "error">>

HookApply(h) ==
    /\ cache' = h.cache
    /\ scripts' = h.scripts
    /\ answer' = h.answer
    /\ session' = h.session
    /\ outcome' = IF h.exc = "none" THEN "ok" ELSE "raised"
    /\ logged' = MainLog(h)
    /\ journal' = JournalAppend(journal, LogAll(MainLog(h), now))

\* one invocation of main; run1 and run2 are how the first and the second
\* external process go if they are started
HookQuery(d, k, run1, run2, p) ==
    /\ nCalls < MaxHookCalls
    /\ nCalls' = nCalls + 1
    /\ HookApply(check_compass_agent_activity(
                     status,
                     execute_knowledge_query_subprocess(cache, scripts, d, k,
                                                        run1, p, now),
                     session, d, k, run2, p, now))
    /\ lastOp' = "hook"
    /\ lastIo' = run1
    /\ lastQuery' = QueryOf(d, k, None, now, "hook")
    /\ lastPut' = NoQuery
    /\ bySystem' = TRUE
    /\ verdict' = NoVerdict
    /\ checks' = 0
    /\ UNCHANGED <<file, initFile, fileStamp, parsedOver, lastRead, reads,
                   faulted, sum, okSum, recorded, seen, procVars, now, status,
                   docs, logLines, backup, stray>>

InitHook ==
    /\ InitLedger(MissingFile)
    /\ InitHist
    /\ InitProcs
    /\ haveLock = TRUE
    /\ InitNoStore
    /\ now = 0
    /\ status \in BOOLEAN
    /\ journal = <<>>
    /\ docs = DocsOf(FALSE, {})
    /\ verdict = NoVerdict
    /\ checks = 0
    /\ bySystem = FALSE
    /\ session \in {MissingSession,
                    SessionOf("obj", Stamp("naive", 0), Stamp("naive", 0))}

NextHook ==
    \/ Tick
    \/ \E d \in Descriptions, k \in KeywordLists, run1 \in QueryOutcomes,
          run2 \in QueryOutcomes, p \in Payloads : HookQuery(d, k, run1, run2, p)

SpecHook == InitHook /\ [][NextHook]_vars

\* C38: one hook invocation starts the external query process at most once,
\* also when the first process fails or times out.
C38_AtMostOneDispatch ==
    lastOp = "hook" => Dispatches(logged) <= 1

\* ---------------------------------------------------------------------------
\* SpecCacheConc: put and get calls of two processes on the cache files, step
\* by step.  save_knowledge_cache opens the file with mode 'wb', which empties
\* it, and pickle.dump then writes the frames of the payload one write at a
\* time, each at the offset its own file object has reached; pickle.load of
\* load_cached_knowledge reads them frame by frame.  Nothing locks the file.
\* The payloads are results of one query over the same documents, so their
\* frames have the same lengths; a payload is two frames.  The calls overlap
\* within one instant, so no entry expires between their steps.
\* ---------------------------------------------------------------------------
Frames(p) == <<p, p>>

NoFrames == <<"none", "none">>

\* pickle.load of what was read: a file that lacks a frame raises, which
\* load_cached_knowledge turns into None (lines 3131-3133)
pickle_load(frames) ==
    IF frames[1] = "none" \/ frames[2] = "none" THEN Answer("miss", None)
    ELSE Answer("hit", frames)

\* open(cache_file, 'wb') of save_knowledge_cache (line 3142)
CPutOpen(p, d, k, pl) ==
    /\ pc[p] = "idle"
    /\ cache' = [cache EXCEPT ![get_cache_key(d, k)] = EntryOf(NoFrames, now)]
    /\ pc' = [pc EXCEPT ![p] = "put1"]
    /\ arg' = [arg EXCEPT ![p] = QueryOf(d, k, pl, now, "put")]
    /\ lastOp' = "put_open"
    /\ logged' = <<"cache_dir_created">>
    /\ UNCHANGED <<ledgerVars, outcome, haveLock, holder, mem, perr,
                   sensorVars, scripts, answer, logLines, backup, stray,
                   lastIo, lastQuery, lastPut>>

\* the file after the process at frame i of its payload has written it
FrameWritten(e, i, pl, t) ==
    [e EXCEPT !.payload = [e.payload EXCEPT ![i] = pl], !.mtime = t]

\* one write of pickle.dump (line 3143); the second one ends the call
CPutWrite(p) ==
    /\ pc[p] \in {"put1", "put2"}
    /\ cache' = [cache EXCEPT ![get_cache_key(arg[p].d, arg[p].kws)] =
                     FrameWritten(@, IF pc[p] = "put1" THEN 1 ELSE 2,
                                  arg[p].payload, now)]
    /\ pc' = [pc EXCEPT ![p] = IF pc[p] = "put1" THEN "put2" ELSE "idle"]
    /\ lastOp' = IF pc[p] = "put1" THEN "put_write" ELSE "put"
    /\ arg' = [arg EXCEPT ![p] = IF pc[p] = "put1" THEN @ ELSE NoArg]
    /\ logged' = IF pc[p] = "put1" THEN <<>> ELSE <<"cache_saved">>
    /\ UNCHANGED <<ledgerVars, outcome, haveLock, holder, mem, perr,
                   sensorVars, scripts, answer, logLines, backup, stray,
                   lastIo, lastQuery, lastPut>>

\* exists(), the age check and open(cache_file, 'rb') of
\* load_cached_knowledge (lines 3114-3125)
CGetOpen(p, d, k) ==
    /\ pc[p] = "idle"
    /\ IF ~cache[get_cache_key(d, k)].present
       THEN /\ answer' = Answer("miss", None)
            /\ logged' = <<>>
            /\ lastOp' = "get"
            /\ UNCHANGED <<cache, pc, arg, mem>>
       ELSE IF now - cache[get_cache_key(d, k)].mtime > KNOWLEDGE_CACHE_TTL
       THEN /\ cache' = [cache EXCEPT ![get_cache_key(d, k)] =
                             [present |-> FALSE, payload |-> NoFrames,
                              mtime |-> 0]]
            /\ answer' = Answer("miss", None)
            /\ logged' = <<"cache_expired">>
            /\ lastOp' = "get"
            /\ UNCHANGED <<pc, arg, mem>>
       ELSE /\ pc' = [pc EXCEPT ![p] = "get1"]
            /\ mem' = [mem EXCEPT ![p] = NoFrames]
            /\ arg' = [arg EXCEPT ![p] = QueryOf(d, k, None, now, "get")]
            /\ logged' = <<>>
            /\ lastOp' = "get_open"
            /\ UNCHANGED <<cache, answer>>
    /\ UNCHANGED <<ledgerVars, outcome, haveLock, holder, perr,
                   sensorVars, scripts, logLines, backup, stray,
                   lastIo, lastQuery, lastPut>>

\* the frames read so far, with frame i as the file holds it now
FrameRead(frames, e, i) == [frames EXCEPT ![i] = e.payload[i]]

GetDone(a) ==
    /\ answer' = a
    /\ logged' = <<IF a.status = "hit" THEN "cache_hit" ELSE "cache_load_error">>

\* one read of pickle.load (line 3126); after the second one the call returns
CGetRead(p) ==
    /\ pc[p] \in {"get1", "get2"}
    /\ IF pc[p] = "get1"
       THEN /\ pc' = [pc EXCEPT ![p] = "get2"]
            /\ mem' = [mem EXCEPT ![p] =
                   FrameRead(@, cache[get_cache_key(arg[p].d, arg[p].kws)], 1)]
            /\ lastOp' = "get_read"
            /\ UNCHANGED <<answer, logged, arg>>
       ELSE /\ pc' = [pc EXCEPT ![p] = "idle"]
            /\ mem' = [mem EXCEPT ![p] = create_empty_token_data]
            /\ arg' = [arg EXCEPT ![p] = NoArg]
            /\ lastOp' = "get"
            /\ GetDone(pickle_load(
                   FrameRead(mem[p],
                             cache[get_cache_key(arg[p].d, arg[p].kws)], 2)))
    /\ UNCHANGED <<ledgerVars, outcome, haveLock, holder, perr,
                   sensorVars, scripts, cache, logLines, backup, stray,
                   lastIo, lastQuery, lastPut>>

InitCacheConc ==
    /\ InitLedger(MissingFile)
    /\ InitHist
    /\ InitSensorIdle
    /\ InitProcs
    /\ haveLock = TRUE
    /\ cache = [key \in CacheKeys |->
                    [present |-> FALSE, payload |-> NoFrames, mtime |-> 0]]
    /\ scripts = {}
    /\ answer = NoAnswer
    /\ logLines = <<>>
    /\ backup = NoBackup
    /\ stray = <<>>
    /\ lastIo = "none"
    /\ lastQuery = NoQuery
    /\ lastPut = NoQuery

NextCacheConc ==
    \/ \E p \in Procs, d \in Descriptions, k \in KeywordLists,
          pl \in Payloads : CPutOpen(p, d, k, pl)
    \/ \E p \in Procs : CPutWrite(p)
    \/ \E p \in Procs, d \in Descriptions, k \in KeywordLists : CGetOpen(p, d, k)
    \/ \E p \in Procs : CGetRead(p)

SpecCacheConc == InitCacheConc /\ [][NextCacheConc]_vars

\* C31: a get that runs while puts are in progress returns a miss or a
\* payload that one put wrote in full under the key asked for.
C31_GetReturnsWholePayload ==
    (lastOp = "get" /\ answer.status = "hit")
        => \E pl \in Payloads : answer.payload = Frames(pl)

\* ---------------------------------------------------------------------------
\* SpecOverlap: record calls step by step with a working lock, and read calls
\* at any moment.  get_current_session_tokens takes no lock (lines 1549-1594),
\* so a read can fall between the open(token_file, 'w') of a record, which
\* empties the file, and its json.dump.
\* ---------------------------------------------------------------------------
\* json.dump and the close of the file opened at line 1355: a file unlinked
\* since the open is no longer reachable under its name, and what is written
\* goes to the unlinked file
DumpOverlap(p) ==
    IF file.kind # "missing" THEN Dump(p)
    ELSE /\ pc[p] = "dump"
         /\ arg' = [arg EXCEPT ![p].res =
                        RecordWrite(TruncatedFile, mem[p], arg[p].io).outcome]
         /\ logged' = RecordWrite(TruncatedFile, mem[p], arg[p].io).log
         /\ Goto(p, "exit")
         /\ UNCHANGED <<file, fileStamp, initFile, lastOp, outcome, lastRead,
                        reads, faulted, nCalls, sum, okSum, recorded, seen,
                        haveLock, holder, mem, perr, parsedOver, sensorVars,
                        storeVars>>

InitOverlap ==
    /\ \E f \in {MissingFile, FileOf("obj", "int", 3, TRUE, A2, TRUE, P1, 0)} :
           InitLedger(f)
    /\ InitHist
    /\ InitNoSensor
    /\ InitProcs
    /\ haveLock = TRUE

NextOverlap ==
    \/ StartAny
    \/ PreCheckAny
    \/ AcquireAny
    \/ LoadAny
    \/ OpenAny
    \/ \E p \in Procs : DumpOverlap(p)
    \/ ExitAny
    \/ ReadNow("none")

SpecOverlap == InitOverlap /\ [][NextOverlap]_vars

\* C35: a read of a ledger file within the size bound leaves the file as it
\* is, also when it falls between the truncation and the writing of a record.
C35_ReadLeavesFile ==
    [][(lastOp' = "read" /\ pc' = pc /\ file.kind # "missing"
        /\ FileSize(file) <= MAX_TOKEN_FILE_SIZE) => file' = file]_vars

\* ---------------------------------------------------------------------------
\* SpecResolveConc: resolve calls of two processes, step by step, with every
\* query process that finds its script succeeding.  Both calls of one key use
\* the script file knowledge_query_<cache_key>.py (line 3298).  The calls
\* overlap within one instant.
\* ---------------------------------------------------------------------------
\* the cache lookup (lines 3189-3193); a hit returns at once
RLookup(p, d, k) ==
    /\ pc[p] = "idle"
    /\ LET r == load_cached_knowledge(cache, get_cache_key(d, k), now)
       IN  /\ cache' = r.cache
           /\ IF r.val # None
              THEN /\ answer' = Answer(PayloadStatus(r.val), r.val)
                   /\ lastOp' = "resolve"
                   /\ logged' = r.log
                   /\ UNCHANGED <<pc, arg>>
              ELSE /\ Goto(p, "script")
                   /\ arg' = [arg EXCEPT ![p] =
                                  QueryOf(d, k, None, now, "resolve")]
                   /\ lastOp' = "resolve_lookup"
                   /\ logged' = r.log \o <<"knowledge_subprocess_start">>
                   /\ UNCHANGED answer
    /\ UNCHANGED <<ledgerVars, outcome, haveLock, holder, mem, perr,
                   sensorVars, scripts, logLines, backup, stray, lastIo,
                   lastQuery, lastPut>>

\* writing the script file (lines 3298-3302)
RScript(p) ==
    /\ pc[p] = "script"
    /\ scripts' = scripts \cup {get_cache_key(arg[p].d, arg[p].kws)}
    /\ Goto(p, "run")
    /\ lastOp' = "resolve_script"
    /\ logged' = <<"cache_dir_created">>
    /\ UNCHANGED <<ledgerVars, outcome, haveLock, holder, arg, mem, perr,
                   sensorVars, cache, answer, logLines, backup, stray, lastIo,
                   lastQuery, lastPut>>

\* subprocess.run and what follows it inside the try (lines 3305-3332): the
\* interpreter exits with a status other than 0 when the script file is gone
RRun(p, pl) ==
    /\ pc[p] = "run"
    /\ IF get_cache_key(arg[p].d, arg[p].kws) \in scripts
       THEN /\ cache' = save_knowledge_cache(
                            cache, get_cache_key(arg[p].d, arg[p].kws), pl, now)
            /\ arg' = [arg EXCEPT ![p].payload = pl]
            /\ logged' = <<"cache_saved", "knowledge_subprocess_success">>
       ELSE /\ logged' = <<"knowledge_subprocess_error">>
            /\ UNCHANGED <<cache, arg>>
    /\ Goto(p, "cleanup")
    /\ lastOp' = "resolve_run"
    /\ UNCHANGED <<ledgerVars, outcome, haveLock, holder, mem, perr,
                   sensorVars, scripts, answer, logLines, backup, stray,
                   lastIo, lastQuery, lastPut>>

\* the finally block (lines 3343-3348) and the return
RCleanup(p) ==
    /\ pc[p] = "cleanup"
    /\ scripts' = scripts \ {get_cache_key(arg[p].d, arg[p].kws)}
    /\ answer' = IF arg[p].payload = None THEN Answer("subprocess_error", None)
                 ELSE Answer(PayloadStatus(arg[p].payload), arg[p].payload)
    /\ Goto(p, "idle")
    /\ arg' = [arg EXCEPT ![p] = NoArg]
    /\ lastOp' = "resolve"
    /\ logged' = <<>>
    /\ UNCHANGED <<ledgerVars, outcome, haveLock, holder, mem, perr,
                   sensorVars, cache, logLines, backup, stray, lastIo,
                   lastQuery, lastPut>>

NextResolveConc ==
    \/ \E p \in Procs, d \in Descriptions, k \in KeywordLists : RLookup(p, d, k)
    \/ \E p \in Procs : RScript(p)
    \/ \E p \in Procs, pl \in Payloads : RRun(p, pl)
    \/ \E p \in Procs : RCleanup(p)

SpecResolveConc == InitFresh /\ [][NextResolveConc]_vars

\* C39: of two overlapping resolve calls for one key, each finds its script
\* file in place when its query process starts, and each returns the payload.
C39_ScriptKeptAndPayloadReturned ==
    /\ \A p \in Procs :
           pc[p] = "run" => get_cache_key(arg[p].d, arg[p].kws) \in scripts
    /\ lastOp = "resolve" => answer.payload \in Payloads

\* ---------------------------------------------------------------------------
\* SpecRotateConc: one log_handler_activity call by each of two processes on
\* a journal over its size bound, step by step and without I/O faults other
\* than the ones the other process causes.  Nothing locks the journal.  An
\* empty logLines stands for a journal that does not exist, which is what the
\* rename leaves until the marker record is written.
\* ---------------------------------------------------------------------------
OverJournal == <<"token_tracking", "session_tracking", "token_tracking">>

AppendArg(action, over) == [action |-> action, over |-> over]

\* the size check of line 3019
ACheck(p, action) ==
    /\ pc[p] = "idle"
    /\ arg' = [arg EXCEPT ![p] = AppendArg(action, Len(logLines) > MAX_LOG_SIZE)]
    /\ Goto(p, IF Len(logLines) > MAX_LOG_SIZE THEN "unlink" ELSE "write")
    /\ lastOp' = "append_check"
    /\ UNCHANGED <<ledgerVars, outcome, logged, haveLock, holder, mem, perr,
                   sensorVars, storeVars>>

\* rotate_log_file, lines 461-463: the backup found is removed
AUnlink(p) ==
    /\ pc[p] = "unlink"
    /\ backup' = NoBackup
    /\ Goto(p, "rename")
    /\ lastOp' = "append_unlink"
    /\ UNCHANGED <<ledgerVars, outcome, logged, haveLock, holder, arg, mem,
                   perr, sensorVars, cache, scripts, answer, logLines, stray,
                   lastIo, lastQuery, lastPut>>

\* line 466: the journal is renamed to the backup name; when it is gone the
\* OSError handler writes a journal holding the log_truncated record (lines
\* 483-499)
ARename(p) ==
    /\ pc[p] = "rename"
    /\ IF logLines = <<>>
       THEN /\ logLines' = <<"log_truncated">>
            /\ Goto(p, "write")
            /\ UNCHANGED backup
       ELSE /\ backup' = BackupOf(logLines)
            /\ logLines' = <<>>
            /\ Goto(p, "marker")
    /\ lastOp' = "append_rename"
    /\ UNCHANGED <<ledgerVars, outcome, logged, haveLock, holder, arg, mem,
                   perr, sensorVars, cache, scripts, answer, stray, lastIo,
                   lastQuery, lastPut>>

\* lines 469-481: open(log_file, "w") and the log_rotated record
AMarker(p) ==
    /\ pc[p] = "marker"
    /\ logLines' = <<"log_rotated">>
    /\ Goto(p, "write")
    /\ lastOp' = "append_marker"
    /\ UNCHANGED <<ledgerVars, outcome, logged, haveLock, holder, arg, mem,
                   perr, sensorVars, cache, scripts, answer, backup, stray,
                   lastIo, lastQuery, lastPut>>

\* lines 3023-3024: the record is appended and the call returns
AWrite(p) ==
    /\ pc[p] = "write"
    /\ logLines' = Append(logLines, arg[p].action)
    /\ Goto(p, "done")
    /\ logged' = <<arg[p].action>>
    /\ outcome' = "ok"
    /\ lastOp' = "append"
    /\ UNCHANGED <<ledgerVars, haveLock, holder, arg, mem, perr, sensorVars,
                   cache, scripts, answer, backup, stray, lastIo, lastQuery,
                   lastPut>>

InitRotateConc ==
    /\ InitLedger(MissingFile)
    /\ InitHist
    /\ InitProcs
    /\ haveLock = TRUE
    /\ InitSensorIdle
    /\ cache = [k \in CacheKeys |-> NoEntry]
    /\ scripts = {}
    /\ answer = NoAnswer
    /\ lastQuery = NoQuery
    /\ lastPut = NoQuery
    /\ lastIo = "none"
    /\ stray = <<>>
    /\ logLines = OverJournal
    /\ backup \in InitBackups

NextRotateConc ==
    \/ \E p \in Procs, action \in JournalActions : ACheck(p, action)
    \/ \E p \in Procs : AUnlink(p)
    \/ \E p \in Procs : ARename(p)
    \/ \E p \in Procs : AMarker(p)
    \/ \E p \in Procs : AWrite(p)

SpecRotateConc == InitRotateConc /\ [][NextRotateConc]_vars

\* C40: when two appends have both found the journal over its size bound and
\* both have finished, the backup holds the journal as it was before the
\* rotation.
C40_BackupHoldsHistory ==
    (\A p \in Procs : pc[p] = "done" /\ arg[p].over)
        => backup = BackupOf(OverJournal)

====
